---------------------------- MODULE Spec2Model ----------------------------
(***************************************************************************)
(* A model of schego's bytecode virtual machine (src/vm.go): the byte      *)
(* stack (VMStack), the buddy allocator (VMHeap) and the interpreter       *)
(* (VMState.Step / RunVM); and of its lexer, LexExp, in the revision that  *)
(* has string and boolean literals (src/unnamed/part_000).                 *)
(*                                                                         *)
(* Conventions.                                                            *)
(*  - Go slices are 0-based, TLA+ sequences 1-based: an index i of the     *)
(*    source is the position i+1 here.  Addresses and the reader position  *)
(*    (cursor) keep the source's 0-based values.                           *)
(*  - A Go panic (index out of range, slice bounds out of range) ends the  *)
(*    process: status becomes "panic" and nothing is enabled afterwards.   *)
(*    A loop that never ends is status "hang".                             *)
(*  - A 64-bit value is kept as the 8 bytes it has in memory (little      *)
(*    endian); where the code computes with it, it is the number those     *)
(*    bytes denote, a number beyond +-2^30 being kept as +-2^30 (it is     *)
(*    beyond every length, address and offset the model has).              *)
(***************************************************************************)
EXTENDS Integers, Sequences, FiniteSets, TLC

VARIABLES
    Heap,          \* VMHeap: [heapSpace, unusedBlocks, blockMap]
    Stack,         \* VMStack: [byteStack, len, lenLastPushed]
    opcodes,       \* VMState.opcodes, the immutable byte buffer
    cursor,        \* position of VMState.opcodeBuffer (bytes.Reader)
    mnemonicMap,   \* VMState.mnemonicMap
    console,       \* the strings handed to Console.Write, in order
    finished,      \* VMState.finished
    exitCode,      \* VMState.exitCode
    status,        \* "ok", "panic", "hang", "returned"
    returned,      \* the value RunVM returned (meaningful when status = "returned")
    live,          \* history: addresses handed out by Allocate and not freed since
    last,          \* history: the operation executed last
    prev,          \* history: the operation executed before it
    idle,          \* history: number of Step calls made while CanStep was false
    input,         \* LexExp: the input string, as ASCII codes
    currentIndex,  \* LexExp: index of the glyph the loop is at (0-based)
    tokens,        \* LexExp: the tokens appended so far
    accumulating,       \* LexExp: accumulating
    accumulatingType,   \* LexExp: accumulatingType
    accumulatorBuffer,  \* LexExp: accumulatorBuffer, as bytes
    overrideState,      \* LexExp: overrideState
    program             \* ParseTokens: the sub-nodes of program, in order

vars == <<Heap, Stack, opcodes, cursor, mnemonicMap, console, finished,
          exitCode, status, returned, live, last, prev, idle,
          input, currentIndex, tokens, accumulating, accumulatingType, accumulatorBuffer,
          overrideState, program>>

lexVars == <<input, currentIndex, tokens, accumulating, accumulatingType, accumulatorBuffer,
             overrideState, program>>

vmVars == <<opcodes, cursor, mnemonicMap, console, finished, exitCode, returned, idle>>

----------------------------------------------------------------------------
(* Program constants (src/vm.go:137-139).                                  *)
initialHeapSize == 16384
blockSize == 32
maxOrder == 10

(* Bounds of the model.                                                    *)
MaxLive == 3            \* blocks allocated at the same time in SpecHeap
MaxHeapOps == 6         \* Allocate/Free calls in one run of SpecHeap
MaxStackOps == 4        \* stack calls in one run of SpecStack
MaxProgLen == 3         \* instructions of a generated program of SpecVM
MaxSteps == 8           \* opcodes executed in one run of SpecVM
MaxIdle == 2            \* Step calls made on a VM that cannot step

----------------------------------------------------------------------------
(* Helpers for sequences and numbers.                                      *)

RECURSIVE Pow2(_)
Pow2(n) == IF n <= 0 THEN 1 ELSE 2 * Pow2(n - 1)

RECURSIVE FloorLog2(_)
FloorLog2(n) == IF n <= 1 THEN 0 ELSE 1 + FloorLog2(n \div 2)

Min(S) == CHOOSE x \in S : \A y \in S : x <= y

\* a[:index] ++ a[index+1:] for the 1-based position i
RemoveAt(s, i) == SubSeq(s, 1, i - 1) \o SubSeq(s, i + 1, Len(s))

\* first 1-based position of x in s, 0 when absent
IndexOf(s, x) ==
    IF \E i \in 1..Len(s) : s[i] = x
    THEN Min({i \in 1..Len(s) : s[i] = x})
    ELSE 0

\* the sequence back to front
Reverse(seq) == [i \in 1..Len(seq) |-> seq[Len(seq) + 1 - i]]

\* a Go map read: the zero value for a missing key
MapGet(m, k, zero) == IF k \in DOMAIN m THEN m[k] ELSE zero

\* a Go map write
MapPut(m, k, v) == (k :> v) @@ m

\* delete(m, k)
MapDelete(m, k) == [x \in DOMAIN m \ {k} |-> m[x]]

----------------------------------------------------------------------------
(* VMHeap: the buddy allocator.  The operators take and return the heap    *)
(* record h = [heapSpace, unusedBlocks, blockMap].                         *)

\* h.unusedBlocks[order]; a missing key reads as the nil slice
Unused(h, order) == MapGet(h.unusedBlocks, order, <<>>)

SetUnused(h, order, list) ==
    [h EXCEPT !.unusedBlocks = MapPut(h.unusedBlocks, order, list)]

\* uint8(math.Log2(float64(n)) - math.Log2(float64(blockSize))): math.Log2 is
\* exact on powers of two (Frexp) and strictly between the neighbouring
\* integers for every other n below 2^48, log2(32) = 5 exactly, and the
\* conversion to uint8 truncates: the result is floor(log2 n) - 5.
OrderFor(requestedBytes) ==
    IF requestedBytes <= blockSize
    THEN 0
    ELSE FloorLog2(requestedBytes) - FloorLog2(blockSize)

\* the loop of the earlier revision: the smallest order whose block holds n
RECURSIVE OrderForLoopFrom(_, _)
OrderForLoopFrom(order, requestedBytes) ==
    IF Pow2(order) * blockSize < requestedBytes
    THEN OrderForLoopFrom(order + 1, requestedBytes)
    ELSE order

OrderForLoop(requestedBytes) == OrderForLoopFrom(0, requestedBytes)

NoFreeBlocksFor(h, order) == Len(Unused(h, order)) = 0

GetFreeBlock(h, order) == Unused(h, order)[1]

\* index is the 1-based position
RemoveBlockFromUnused(h, index, order) ==
    SetUnused(h, order, RemoveAt(Unused(h, order), index))

GetUnusedBlockIndex(h, address, order) == IndexOf(Unused(h, order), address)

\* mutant: the buddy is always taken above the block
GetBuddyAddressAlwaysUp(address, order) == address + Pow2(order) * blockSize

GetBuddyAddress(address, order) ==
    LET totalBlockSize == Pow2(order) * blockSize
        buddyNumber == address \div totalBlockSize
    IN  IF buddyNumber % 2 = 0
        THEN address + totalBlockSize
        ELSE address - totalBlockSize

HasBuddy(h, address, order) ==
    \E i \in 1..Len(Unused(h, order)) :
        Unused(h, order)[i] = GetBuddyAddress(address, order)

\* h.unusedBlocks[order] = append(h.unusedBlocks[order], address)
AppendUnused(h, order, address) ==
    SetUnused(h, order, Unused(h, order) \o <<address>>)

\* h.blockMap[address] = order
SetBlockOrder(h, address, order) ==
    [h EXCEPT !.blockMap = MapPut(h.blockMap, address, order)]

\* the search that opens SplitBlock: targetIndex stays 0 (the first entry)
\* when the address is not in the list
SplitTargetIndex(h, address, order) ==
    IF IndexOf(Unused(h, order), address) = 0
    THEN 1
    ELSE IndexOf(Unused(h, order), address)

\* mutant: the second half is placed a whole block, not half a block, further
SplitBlockSameOrder(h, address, order) ==
    SetBlockOrder(
        AppendUnused(
            SetBlockOrder(
                AppendUnused(
                    RemoveBlockFromUnused(h, SplitTargetIndex(h, address, order), order),
                    order - 1, address + Pow2(order) * blockSize),
                address + Pow2(order) * blockSize, order - 1),
            order - 1, address),
        address, order - 1)

\* the statements of SplitBlock, innermost first: the block leaves its list,
\* the second half and then the first half join the list one order below
SplitBlock(h, address, order) ==
    SetBlockOrder(
        AppendUnused(
            SetBlockOrder(
                AppendUnused(
                    RemoveBlockFromUnused(h, SplitTargetIndex(h, address, order), order),
                    order - 1, address + Pow2(order - 1) * blockSize),
                address + Pow2(order - 1) * blockSize, order - 1),
            order - 1, address),
        address, order - 1)

\* The first loop of CreateBlock: freeOrder is a uint8 that starts at order+1
\* and is incremented while its free list is empty, wrapping from 255 to 0.
\* -1 when every free list is empty (the loop never ends).
FindFreeOrder(h, order) ==
    LET up   == {k \in DOMAIN h.unusedBlocks : k > order /\ ~NoFreeBlocksFor(h, k)}
        down == {k \in DOMAIN h.unusedBlocks : k <= order /\ ~NoFreeBlocksFor(h, k)}
    IN  IF up # {} THEN Min(up)
        ELSE IF down # {} THEN Min(down)
        ELSE -1

\* The second loop of CreateBlock: [st |-> "ok" | "panic", h |-> heap].
\* GetFreeBlock on an empty list is an index-out-of-range panic.
RECURSIVE SplitDown(_, _, _)
SplitDown(h, freeOrder, order) ==
    IF freeOrder <= order THEN [st |-> "ok", h |-> h]
    ELSE IF NoFreeBlocksFor(h, freeOrder) THEN [st |-> "panic", h |-> h]
    ELSE SplitDown(SplitBlock(h, GetFreeBlock(h, freeOrder), freeOrder),
                   freeOrder - 1, order)

\* [st |-> "ok" | "hang" | "panic", h |-> the heap afterwards]
CreateBlock(h, order) ==
    IF FindFreeOrder(h, order) = -1
    THEN [st |-> "hang", h |-> h]
    ELSE SplitDown(h, FindFreeOrder(h, order), order)

\* mutant: the block handed out stays in its free list
TakeFreeBlockKeepInList(made, order) ==
    IF made.st # "ok"
    THEN [st |-> made.st, addr |-> 0, h |-> made.h]
    ELSE IF NoFreeBlocksFor(made.h, order)
    THEN [st |-> "panic", addr |-> 0, h |-> made.h]
    ELSE [st |-> "ok", addr |-> GetFreeBlock(made.h, order), h |-> made.h]

\* the end of Allocate, made being the outcome of its CreateBlock:
\* [st |-> "ok" | "hang" | "panic", addr |-> the address returned, h |-> heap]
TakeFreeBlock(made, order) ==
    IF made.st # "ok"
    THEN [st |-> made.st, addr |-> 0, h |-> made.h]
    ELSE IF NoFreeBlocksFor(made.h, order)
    THEN [st |-> "panic", addr |-> 0, h |-> made.h]
    ELSE [st |-> "ok",
          addr |-> GetFreeBlock(made.h, order),
          h |-> RemoveBlockFromUnused(made.h, 1, order)]

Allocate(h, numBytes) ==
    TakeFreeBlock(IF NoFreeBlocksFor(h, OrderFor(numBytes))
                  THEN CreateBlock(h, OrderFor(numBytes))
                  ELSE [st |-> "ok", h |-> h],
                  OrderFor(numBytes))

\* RemoveBlockFromUnused(GetUnusedBlockIndex(address, order), order)
RemoveAddressFromUnused(h, address, order) ==
    RemoveBlockFromUnused(h, GetUnusedBlockIndex(h, address, order), order)

\* the lower of a block and its buddy
LowerOfPair(address, order) ==
    IF GetBuddyAddress(address, order) < address
    THEN GetBuddyAddress(address, order)
    ELSE address

\* the higher of a block and its buddy
HigherOfPair(address, order) ==
    IF GetBuddyAddress(address, order) < address
    THEN address
    ELSE GetBuddyAddress(address, order)

\* MergeWithBuddy up to its recursion, innermost first: the higher block
\* leaves blockMap, the buddy and the block leave their list, the merged
\* block joins the list one order above
MergePair(h, address, order) ==
    AppendUnused(
        SetBlockOrder(
            RemoveAddressFromUnused(
                RemoveAddressFromUnused(
                    [h EXCEPT !.blockMap = MapDelete(h.blockMap, HigherOfPair(address, order))],
                    GetBuddyAddress(address, order), order),
                address, order),
            LowerOfPair(address, order), order + 1),
        order + 1, LowerOfPair(address, order))

RECURSIVE MergeWithBuddy(_, _, _)

\* if h.HasBuddy(address, order) { h.MergeWithBuddy(address, order) }
MergeIfBuddy(h, address, order) ==
    IF HasBuddy(h, address, order)
    THEN MergeWithBuddy(h, address, order)
    ELSE h

MergeWithBuddy(h, address, order) ==
    MergeIfBuddy(MergePair(h, address, order), LowerOfPair(address, order), order + 1)

Free(h, address) ==
    MergeIfBuddy(AppendUnused(h, MapGet(h.blockMap, address, 0), address),
                 address, MapGet(h.blockMap, address, 0))

AllocateRootBlock(h, heapSize) ==
    SetBlockOrder(AppendUnused(h, OrderFor(heapSize), 0), 0, OrderFor(heapSize))

\* heapSpace is all zero after make; it is kept as the map of the bytes
\* written so far, a byte never written reading as 0.
NewVMHeap ==
    AllocateRootBlock([heapSpace |-> << >>,
                       unusedBlocks |-> [i \in 0..maxOrder |-> << >>],
                       blockMap |-> << >>],
                      initialHeapSize)

NewVMStack == [byteStack |-> << >>, len |-> 0, lenLastPushed |-> 0]

----------------------------------------------------------------------------
(* 64-bit values.  An int64, uint64 or float64 is kept as the 8 bytes      *)
(* binary.Read and binary.Write convert it from and to (little endian).    *)
(* ToInt64 and ToUint64 give the number where the code computes with it;   *)
(* beyond +-Huge the number is kept as +-Huge, which is all a length, an   *)
(* address or an offset of that size needs here: it is beyond every buffer.*)

Huge == Pow2(30)

Low3(b) == b[1] + 256 * b[2] + 65536 * b[3]

ToInt64(b) ==
    IF Len(b) < 8 THEN 0     \* binary.Read fails on a short buffer: the zero value stays
    ELSE IF b[8] >= 128
    THEN IF b[5] = 255 /\ b[6] = 255 /\ b[7] = 255 /\ b[8] = 255 /\ b[4] >= 192
         THEN Low3(b) + 16777216 * (b[4] - 256)
         ELSE 0 - Huge
    ELSE IF b[5] = 0 /\ b[6] = 0 /\ b[7] = 0 /\ b[8] = 0 /\ b[4] < 64
         THEN Low3(b) + 16777216 * b[4]
         ELSE Huge

\* uint64(x) of an int64 x: a negative x is a number of at least 2^63
ToUint64(b) == IF ToInt64(b) < 0 THEN Huge ELSE ToInt64(b)

\* binary.Write(buf, binary.LittleEndian, n) for |n| < 2^31
FromInt64(n) ==
    LET hi == IF n < 0 THEN 255 ELSE 0
    IN  <<n % 256, (n \div 256) % 256, (n \div 65536) % 256, (n \div 16777216) % 256,
          hi, hi, hi, hi>>

----------------------------------------------------------------------------
(* VMStack.  The operators take the stack record s = [byteStack, len,      *)
(* lenLastPushed]; a pop returns the value together with the stack.  A pop *)
(* of a byte that is not there panics: the callers test Holds first.       *)

Holds(s, n) == s.len >= n

PushByte(s, newValue) ==
    [byteStack |-> Append(s.byteStack, newValue),
     len |-> s.len + 1,
     lenLastPushed |-> 1]

PopByte(s) ==
    [top |-> s.byteStack[s.len],
     s |-> [s EXCEPT !.byteStack = SubSeq(s.byteStack, 1, s.len - 1),
                     !.len = s.len - 1]]

\* for _, b := range bytes { s.PushByte(b) }: the bytes are appended in their
\* order, and each PushByte leaves lenLastPushed at 1
PushBytes(s, bytes) ==
    IF bytes = << >> THEN s
    ELSE [byteStack |-> s.byteStack \o bytes,
          len |-> s.len + Len(bytes),
          lenLastPushed |-> 1]

\* mutant: the popped bytes are appended, not inserted at the front
PopBytesBack(s, n, buffer) ==
    IF n <= 0 THEN [val |-> buffer, s |-> s]
    ELSE [val |-> buffer \o Reverse(SubSeq(s.byteStack, s.len - n + 1, s.len)),
          s |-> [s EXCEPT !.byteStack = SubSeq(s.byteStack, 1, s.len - n),
                          !.len = s.len - n]]

\* n times: buffer = append([]byte{s.PopByte()}, buffer...).  The top n
\* bytes end up in front of buffer in the order they have on the stack.
PopBytesFront(s, n, buffer) ==
    IF n <= 0 THEN [val |-> buffer, s |-> s]
    ELSE [val |-> SubSeq(s.byteStack, s.len - n + 1, s.len) \o buffer,
          s |-> [s EXCEPT !.byteStack = SubSeq(s.byteStack, 1, s.len - n),
                          !.len = s.len - n]]

PushInt(s, intBytes) == [PushBytes(s, intBytes) EXCEPT !.lenLastPushed = 8]

PopInt(s) == PopBytesFront(s, 8, << >>)

PushDouble(s, doubleBytes) == [PushBytes(s, doubleBytes) EXCEPT !.lenLastPushed = 8]

PopDouble(s) == PopBytesFront(s, 8, << >>)

PushString(s, runeBytes) ==
    LET bufferLength == Len(runeBytes)
        s1 == PushBytes(s, runeBytes)
        s2 == PushInt(s1, FromInt64(bufferLength))
    IN  [s2 EXCEPT !.lenLastPushed = bufferLength]

\* whether PopString runs through: the length is there, and so are the
\* bytes it announces (a negative length pops nothing)
HoldsString(s) ==
    /\ Holds(s, 8)
    /\ Holds(PopInt(s).s, ToInt64(PopInt(s).val))

PopString(s) ==
    LET n == PopInt(s)
    IN  PopBytesFront(n.s, ToInt64(n.val), << >>)

PushEmptyCell(s) ==
    LET zeroBuf == <<0, 0, 0, 0, 0, 0, 0, 0>>
    IN  [PushInt(PushInt(PushInt(s, zeroBuf), zeroBuf), zeroBuf)
            EXCEPT !.lenLastPushed = 24]

\* cell is the 24 bytes length | dataAddr | nextAddr
PushCell(s, cell) ==
    LET nextCell == SubSeq(cell, 17, Len(cell))
        dataAddress == SubSeq(cell, 9, 16)
        dataLength == SubSeq(cell, 1, 8)
    IN  [PushInt(PushInt(PushInt(s, nextCell), dataAddress), dataLength)
            EXCEPT !.lenLastPushed = 24]

\* val is <<length, dataAddr, nextAddr>>
PopCell(s) ==
    LET a == PopInt(s)
        b == PopInt(a.s)
        c == PopInt(b.s)
    IN  [val |-> <<a.val, b.val, c.val>>, s |-> c.s]

\* byteStack[len - lenLastPushed:] panics when lenLastPushed > len
HoldsDup(s) == s.lenLastPushed <= s.len

Dup(s) ==
    LET lastValue == SubSeq(s.byteStack, s.len - s.lenLastPushed + 1, Len(s.byteStack))
    IN  [PushBytes(s, lastValue) EXCEPT !.lenLastPushed = Len(lastValue)]

----------------------------------------------------------------------------
(* SpecHeap: a client of the allocator that calls Allocate with sizes of   *)
(* AllocSizes and frees addresses it holds, each once.                     *)

AllocSizes == {1, 33, 64, 200, 8192, 16384}

NoOp == [op |-> "none", count |-> 0]

\* the locals of LexExp at its first line; input is its argument
LexLocals ==
    /\ currentIndex = 0
    /\ tokens = << >>
    /\ accumulating = FALSE
    /\ accumulatingType = "None"
    /\ accumulatorBuffer = << >>
    /\ overrideState = "None"
    /\ program = << >>

InitCommon ==
    /\ input = << >>
    /\ LexLocals
    /\ Heap = NewVMHeap
    /\ Stack = NewVMStack
    /\ mnemonicMap = << >>
    /\ console = << >>
    /\ finished = FALSE
    /\ exitCode = FromInt64(0)
    /\ status = "ok"
    /\ returned = FromInt64(0)
    /\ live = {}
    /\ last = NoOp
    /\ prev = NoOp
    /\ idle = 0

\* no program is loaded: the heap and the stack are used through their methods
InitHeap ==
    /\ InitCommon
    /\ opcodes = << >>
    /\ cursor = 0

HeapAllocate(n) ==
    /\ status = "ok"
    /\ last.count < MaxHeapOps
    /\ Cardinality(live) < MaxLive
    /\ LET r == Allocate(Heap, n)
       IN  /\ Heap' = r.h
           /\ status' = r.st
           /\ live' = IF r.st = "ok" THEN live \cup {r.addr} ELSE live
           /\ last' = [op |-> "alloc", n |-> n, addr |-> r.addr, st |-> r.st,
                       count |-> last.count + 1]
    /\ prev' = last
    /\ UNCHANGED <<Stack, vmVars, lexVars>>

HeapFree(a) ==
    /\ status = "ok"
    /\ last.count < MaxHeapOps
    /\ a \in live
    /\ Heap' = Free(Heap, a)
    /\ live' = live \ {a}
    /\ last' = [op |-> "free", addr |-> a, count |-> last.count + 1]
    /\ prev' = last
    /\ UNCHANGED <<Stack, vmVars, status, lexVars>>

NextHeap ==
    \/ \E n \in AllocSizes : HeapAllocate(n)
    \/ \E a \in live : HeapFree(a)

SpecHeap == InitHeap /\ [][NextHeap]_vars

----------------------------------------------------------------------------
(* Properties of the allocator, checked under SpecHeap.                    *)

RootUnusedBlocks ==
    [i \in 0..maxOrder |-> IF i = OrderFor(initialHeapSize) THEN <<0>> ELSE << >>]

\* the free-list entries of h as blocks; tag keeps two entries apart
FreeBlocksOf(h) ==
    UNION {{[addr |-> h.unusedBlocks[k][i], size |-> blockSize * Pow2(k),
             tag |-> <<"free", k, i>>] : i \in 1..Len(h.unusedBlocks[k])} :
           k \in DOMAIN h.unusedBlocks}

\* the allocated blocks, their order taken from blockMap
LiveBlocksOf(h, held) ==
    {[addr |-> a, size |-> blockSize * Pow2(MapGet(h.blockMap, a, 0)), tag |-> <<"live", a>>] :
        a \in held}

RECURSIVE SumSizes(_)
SumSizes(S) ==
    IF S = {} THEN 0
    ELSE LET b == CHOOSE x \in S : TRUE IN b.size + SumSizes(S \ {b})

InFreeList(h, a) ==
    \E k \in DOMAIN h.unusedBlocks : \E i \in 1..Len(h.unusedBlocks[k]) :
        h.unusedBlocks[k][i] = a

\* C1: once every address handed out by Allocate has been freed (each once),
\* the heap is the fresh heap again: unusedBlocks[9] = [0], every other free
\* list empty, blockMap = {0: 9}.
C1_MatchedFreesRestoreRoot ==
    (status = "ok" /\ live = {}) =>
        /\ Heap.unusedBlocks = RootUnusedBlocks
        /\ Heap.blockMap = (0 :> OrderFor(initialHeapSize))

\* C1 witness: two blocks were allocated and both freed.
C1_Witness ==
    /\ status = "ok" /\ live = {}
    /\ last.op = "free" /\ prev.op = "free"

\* C2: an address a returned by Allocate(n) satisfies
\* a + blockSize * 2^OrderFor(n) <= initialHeapSize, blockMap[a] = OrderFor(n),
\* and a is in no free list any more.
C2_AllocatedBlockInArena ==
    (last.op = "alloc" /\ last.st = "ok") =>
        /\ last.addr + blockSize * Pow2(OrderFor(last.n)) <= initialHeapSize
        /\ last.addr \in DOMAIN Heap.blockMap
        /\ Heap.blockMap[last.addr] = OrderFor(last.n)
        /\ ~InFreeList(Heap, last.addr)

\* C2 witness: an Allocate that returned after a Free, with another block held.
C2_Witness ==
    /\ last.op = "alloc" /\ last.st = "ok"
    /\ prev.op = "free"
    /\ Cardinality(live) >= 2

\* C3 (as claimed): OrderFor(n) is the smallest order k with
\* blockSize * 2^k >= n, so the block Allocate(n) hands out holds n bytes.
C3_OrderForIsCeiling ==
    (last.op = "alloc") =>
        /\ OrderFor(last.n) = OrderForLoop(last.n)
        /\ (last.st = "ok" =>
               last.n <= blockSize * Pow2(MapGet(Heap.blockMap, last.addr, 0)))

\* C4: the free blocks and the allocated blocks are pairwise disjoint and
\* cover the arena [0, initialHeapSize) exactly (all inside the arena,
\* pairwise disjoint, sizes adding up to the arena's size).
C4_BlocksPartitionArena ==
    LET blocks == FreeBlocksOf(Heap) \cup LiveBlocksOf(Heap, live)
    IN  /\ \A b \in blocks : b.addr >= 0 /\ b.addr + b.size <= initialHeapSize
        /\ \A b1, b2 \in blocks :
              b1 # b2 => (b1.addr + b1.size <= b2.addr \/ b2.addr + b2.size <= b1.addr)
        /\ SumSizes(blocks) = initialHeapSize

\* C4 witness: blocks are held while another one has just been freed.
C4_Witness ==
    /\ status = "ok"
    /\ last.op = "free"
    /\ Cardinality(live) >= 2

----------------------------------------------------------------------------
(* SpecStack: a client of the stack that pushes values of every type, pops *)
(* them as any type and duplicates.                                        *)

ByteValues == {1, 200}
IntValues == {FromInt64(258), FromInt64(-1)}
\* pi (3.141592653589793), as in TestDouble
DoubleValues == {<<24, 45, 68, 84, 251, 33, 9, 64>>}
\* "", "Hi\0", "Hello, W\0"
StringValues == {<< >>, <<72, 105, 0>>, <<72, 101, 108, 108, 111, 44, 32, 87, 0>>}
\* length 8, dataAddr 64, nextAddr 96
CellValues == {FromInt64(8) \o FromInt64(64) \o FromInt64(96)}

StackOp(name, arg, res) ==
    [op |-> name, arg |-> arg, res |-> res, pre |-> Stack, count |-> last.count + 1]

StackStep(name, arg, res, s) ==
    /\ Stack' = s
    /\ last' = StackOp(name, arg, res)
    /\ prev' = last
    /\ UNCHANGED <<Heap, vmVars, live, status, lexVars>>

StackPanic(name) ==
    /\ status' = "panic"
    /\ last' = StackOp(name, << >>, << >>)
    /\ prev' = last
    /\ UNCHANGED <<Heap, vmVars, live, Stack, lexVars>>

StackReady == status = "ok" /\ last.count < MaxStackOps

StackPushByte(b) ==
    /\ StackReady
    /\ StackStep("PushByte", b, << >>, PushByte(Stack, b))

StackPopByte ==
    /\ StackReady
    /\ IF Holds(Stack, 1)
       THEN StackStep("PopByte", << >>, PopByte(Stack).top, PopByte(Stack).s)
       ELSE StackPanic("PopByte")

StackPushInt(v) ==
    /\ StackReady
    /\ StackStep("PushInt", v, << >>, PushInt(Stack, v))

StackPopInt ==
    /\ StackReady
    /\ IF Holds(Stack, 8)
       THEN StackStep("PopInt", << >>, PopInt(Stack).val, PopInt(Stack).s)
       ELSE StackPanic("PopInt")

StackPushDouble(v) ==
    /\ StackReady
    /\ StackStep("PushDouble", v, << >>, PushDouble(Stack, v))

StackPopDouble ==
    /\ StackReady
    /\ IF Holds(Stack, 8)
       THEN StackStep("PopDouble", << >>, PopDouble(Stack).val, PopDouble(Stack).s)
       ELSE StackPanic("PopDouble")

StackPushString(v) ==
    /\ StackReady
    /\ StackStep("PushString", v, << >>, PushString(Stack, v))

StackPopString ==
    /\ StackReady
    /\ IF HoldsString(Stack)
       THEN StackStep("PopString", << >>, PopString(Stack).val, PopString(Stack).s)
       ELSE StackPanic("PopString")

StackPushEmptyCell ==
    /\ StackReady
    /\ StackStep("PushEmptyCell", << >>, << >>, PushEmptyCell(Stack))

StackPushCell(v) ==
    /\ StackReady
    /\ StackStep("PushCell", v, << >>, PushCell(Stack, v))

StackPopCell ==
    /\ StackReady
    /\ IF Holds(Stack, 24)
       THEN StackStep("PopCell", << >>, PopCell(Stack).val, PopCell(Stack).s)
       ELSE StackPanic("PopCell")

StackDup ==
    /\ StackReady
    /\ IF HoldsDup(Stack)
       THEN StackStep("Dup", << >>, << >>, Dup(Stack))
       ELSE StackPanic("Dup")

NextStack ==
    \/ \E b \in ByteValues : StackPushByte(b)
    \/ StackPopByte
    \/ \E v \in IntValues : StackPushInt(v)
    \/ StackPopInt
    \/ \E v \in DoubleValues : StackPushDouble(v)
    \/ StackPopDouble
    \/ \E v \in StringValues : StackPushString(v)
    \/ StackPopString
    \/ StackPushEmptyCell
    \/ \E v \in CellValues : StackPushCell(v)
    \/ StackPopCell
    \/ StackDup

SpecStack == InitHeap /\ [][NextStack]_vars

----------------------------------------------------------------------------
(* Properties of the stack, checked under SpecStack.                       *)

MatchingPop ==
    [PushByte |-> "PopByte", PushInt |-> "PopInt", PushDouble |-> "PopDouble",
     PushString |-> "PopString", PushCell |-> "PopCell"]

\* the three words PopCell returns for the 24 bytes handed to PushCell
CellWords(cell) == <<SubSeq(cell, 1, 8), SubSeq(cell, 9, 16), SubSeq(cell, 17, 24)>>

\* the value a push put on the stack, as the matching pop returns it
PushedValue(o) ==
    CASE o.op = "PushCell" -> CellWords(o.arg)
      [] o.op = "PushEmptyCell" -> CellWords(FromInt64(0) \o FromInt64(0) \o FromInt64(0))
      [] OTHER -> o.arg

\* the pop matching a push, applied to s; ok tells whether it runs through
PopAs(pushOp, s) ==
    CASE pushOp = "PushByte" ->
            IF Holds(s, 1)
            THEN [ok |-> TRUE, val |-> PopByte(s).top, s |-> PopByte(s).s]
            ELSE [ok |-> FALSE, val |-> << >>, s |-> s]
      [] pushOp \in {"PushInt", "PushDouble"} ->
            IF Holds(s, 8)
            THEN [ok |-> TRUE, val |-> PopInt(s).val, s |-> PopInt(s).s]
            ELSE [ok |-> FALSE, val |-> << >>, s |-> s]
      [] pushOp = "PushString" ->
            IF HoldsString(s)
            THEN [ok |-> TRUE, val |-> PopString(s).val, s |-> PopString(s).s]
            ELSE [ok |-> FALSE, val |-> << >>, s |-> s]
      [] OTHER ->
            IF Holds(s, 24)
            THEN [ok |-> TRUE, val |-> PopCell(s).val, s |-> PopCell(s).s]
            ELSE [ok |-> FALSE, val |-> << >>, s |-> s]

\* C6: a push immediately followed by the matching pop returns the pushed
\* value (a cell as length, dataAddr, nextAddr) and leaves the stack bytes
\* and the length as they were before the push.
C6_PushPopRoundTrip ==
    (status = "ok" /\ prev.op \in DOMAIN MatchingPop /\ last.op = MatchingPop[prev.op]) =>
        /\ last.res = PushedValue(prev)
        /\ Stack.byteStack = prev.pre.byteStack
        /\ Stack.len = prev.pre.len

\* C6 witness: a cell pushed on a non-empty stack has been popped again.
C6_Witness ==
    /\ status = "ok"
    /\ prev.op = "PushCell" /\ last.op = "PopCell"
    /\ prev.pre.len > 0

\* C7 (as claimed): after a typed push and Dup, popping that type twice
\* returns the pushed value both times, and Dup left lenLastPushed unchanged.
C7_DupLeavesTwoCopies ==
    (status = "ok" /\ last.op = "Dup"
        /\ prev.op \in DOMAIN MatchingPop \cup {"PushEmptyCell"}) =>
        LET first == PopAs(prev.op, Stack)
            second == PopAs(prev.op, first.s)
        IN  /\ first.ok /\ first.val = PushedValue(prev)
            /\ second.ok /\ second.val = PushedValue(prev)
            /\ Stack.lenLastPushed = last.pre.lenLastPushed

\* C8 (as claimed): lenLastPushed <= Length() in every state of the stack.
C8_LastPushedWithinLength ==
    status = "ok" => Stack.lenLastPushed <= Stack.len

----------------------------------------------------------------------------
(* Exact arithmetic on 8-byte values.                                      *)

Neg(b) == b[8] >= 128

\* x < y as uint64
UnsignedLess(x, y) ==
    \E i \in 1..8 : x[i] < y[i] /\ \A j \in (i + 1)..8 : x[j] = y[j]

\* mutant: the operands are compared as uint64
SignedLessAsUnsigned(x, y) == UnsignedLess(x, y)

\* x < y as int64 (two's complement)
SignedLess(x, y) == IF Neg(x) # Neg(y) THEN Neg(x) ELSE UnsignedLess(x, y)

\* x + y as int64, wrapping
RECURSIVE AddBytes(_, _, _, _)
AddBytes(x, y, i, carry) ==
    IF i > 8 THEN << >>
    ELSE LET sum == x[i] + y[i] + carry
         IN  <<sum % 256>> \o AddBytes(x, y, i + 1, sum \div 256)

AddInt64(x, y) == AddBytes(x, y, 1, 0)

\* float64: NaN, zero (of either sign) and the order of the magnitudes
IsNaN(b) ==
    /\ b[8] % 128 = 127 /\ b[7] >= 240
    /\ (b[7] % 16 # 0 \/ \E i \in 1..6 : b[i] # 0)

IsZero(b) == b[8] % 128 = 0 /\ \A i \in 1..7 : b[i] = 0

Magnitude(b) == [i \in 1..8 |-> IF i = 8 THEN b[8] % 128 ELSE b[i]]

FloatEqual(x, y) ==
    /\ ~IsNaN(x) /\ ~IsNaN(y)
    /\ (x = y \/ (IsZero(x) /\ IsZero(y)))

FloatGreater(x, y) ==
    /\ ~IsNaN(x) /\ ~IsNaN(y) /\ ~FloatEqual(x, y)
    /\ IF Neg(x) # Neg(y) THEN Neg(y)
       ELSE IF Neg(x) THEN UnsignedLess(Magnitude(x), Magnitude(y))
       ELSE UnsignedLess(Magnitude(y), Magnitude(x))

\* strconv.FormatInt(n, 10) as ASCII codes, for |n| < Huge
RECURSIVE Digits(_)
Digits(n) == IF n < 10 THEN <<48 + n>> ELSE Digits(n \div 10) \o <<48 + (n % 10)>>

FormatInt(b) ==
    LET n == ToInt64(b)
    IN  IF n >= Huge \/ n <= 0 - Huge THEN [int64 |-> b]
        ELSE IF n < 0 THEN [text |-> <<45>> \o Digits(0 - n)]
        ELSE [text |-> Digits(n)]

\* strconv.FormatFloat(x, 'f', -1, 64): the shortest decimal text that reads
\* back as x, kept as the value it denotes
FormatFloat(b) == [float64 |-> b]


----------------------------------------------------------------------------
(* VMHeap: typed access to heapSpace.  heapSpace maps the addresses that   *)
(* hold a non-zero byte to that byte.  An index beyond the arena panics.   *)

InArena(address, numBytes) ==
    numBytes <= 0 \/ address + numBytes <= initialHeapSize

Write(h, data, address) ==
    LET touched == {address + i - 1 : i \in 1..Len(data)}
        nonzero == {address + i - 1 : i \in {j \in 1..Len(data) : data[j] # 0}}
    IN  [h EXCEPT !.heapSpace =
            [a \in (DOMAIN h.heapSpace \ touched) \cup nonzero |->
                IF a \in touched THEN data[a - address + 1] ELSE h.heapSpace[a]]]

\* mutant of the earlier revision: the bytes are read from offset 0
ReadFromZero(h, numBytes, address) ==
    [i \in 1..numBytes |-> MapGet(h.heapSpace, i - 1, 0)]

Read(h, numBytes, address) ==
    [i \in 1..numBytes |-> MapGet(h.heapSpace, address + i - 1, 0)]

\* the number of bytes before the first zero byte at or after address;
\* -1 when the arena ends first (index out of range)
RECURSIVE StringLength(_, _, _)
StringLength(h, address, i) ==
    IF address + i >= initialHeapSize THEN -1
    ELSE IF MapGet(h.heapSpace, address + i, 0) = 0 THEN i
    ELSE StringLength(h, address, i + 1)

ReadString(h, address) == Read(h, StringLength(h, address, 0), address)

----------------------------------------------------------------------------
(* VMState.  The handlers take and return the record                       *)
(* v = [Stack, Heap, cursor, mnemonicMap, console, finished, exitCode, st],*)
(* st being "ok", "panic" or "hang".                                       *)

VM ==
    [Stack |-> Stack, Heap |-> Heap, cursor |-> cursor, mnemonicMap |-> mnemonicMap,
     console |-> console, finished |-> finished, exitCode |-> exitCode, st |-> "ok"]

Crash(v) == [v EXCEPT !.st = "panic"]

\* opcodeBuffer.Len()
ReaderLen(v) == IF v.cursor >= Len(opcodes) THEN 0 ELSE Len(opcodes) - v.cursor

\* mutant: a finished VM can still step
CanStepIgnoringFinished(v) == ReaderLen(v) # 0

CanStep(v) == ReaderLen(v) # 0 /\ ~v.finished

\* [bytes, v]: bytes.Reader.Read fills what is left and fails only at the
\* end of the buffer, where ReadBytes returns the single byte 0
ReadBytes(v, length) ==
    IF v.cursor >= Len(opcodes)
    THEN [bytes |-> <<0>>, v |-> v]
    ELSE LET left == Len(opcodes) - v.cursor
             n == IF length < left THEN length ELSE left
         IN  [bytes |-> [i \in 1..length |-> IF i <= n THEN opcodes[v.cursor + i] ELSE 0],
              v |-> [v EXCEPT !.cursor = v.cursor + n]]

\* opcodeBuffer.Seek(offset, io.SeekCurrent): a negative position is an
\* error and leaves the position alone
Seek(v, offset) ==
    IF v.cursor + offset < 0 THEN v ELSE [v EXCEPT !.cursor = v.cursor + offset]

jump(v) ==
    LET r == ReadBytes(v, 8)
    IN  Seek(r.v, ToInt64(r.bytes))

Mnemonic(v, key) == MapGet(v.mnemonicMap, key, 0)

\* v.Heap.Allocate(numBytes) inside a handler: [st, addr, v]
VMAllocate(v, numBytes) ==
    LET r == Allocate(v.Heap, numBytes)
    IN  [addr |-> r.addr, v |-> [v EXCEPT !.Heap = r.h, !.st = r.st]]

pushi(v) ==
    LET r == ReadBytes(v, 8)
    IN  [r.v EXCEPT !.Stack = PushInt(v.Stack, r.bytes)]

pushd(v) ==
    LET r == ReadBytes(v, 8)
    IN  [r.v EXCEPT !.Stack = PushDouble(v.Stack, r.bytes)]

\* the loop of pushs: [bytes, v]
RECURSIVE ReadRunes(_, _)
ReadRunes(v, utfBytes) ==
    LET r == ReadBytes(v, 1)
        firstByte == r.bytes[1]
    IN  IF firstByte < 128
        THEN IF firstByte = 0
             THEN [bytes |-> Append(utfBytes, firstByte), v |-> r.v]
             ELSE ReadRunes(r.v, Append(utfBytes, firstByte))
        ELSE LET upperFourBits == firstByte \div 16
                 codepointLength == IF upperFourBits = 12 THEN 2
                                    ELSE IF upperFourBits = 14 THEN 3
                                    ELSE 4
                 extra == ReadBytes(r.v, codepointLength - 1)
             IN  ReadRunes(extra.v, utfBytes \o <<firstByte>> \o extra.bytes)

\* mutant: pushs gives up when no 0x00 is left in the program
pushsWantingTerminator(v) ==
    LET r == ReadRunes(v, << >>)
    IN  IF \A i \in (v.cursor + 1)..Len(opcodes) : opcodes[i] # 0 THEN Crash(v)
        ELSE [r.v EXCEPT !.Stack = PushString(v.Stack, r.bytes)]

pushs(v) ==
    LET r == ReadRunes(v, << >>)
    IN  [r.v EXCEPT !.Stack = PushString(v.Stack, r.bytes)]

cons(v) == [v EXCEPT !.Stack = PushEmptyCell(v.Stack)]

dup(v) == IF HoldsDup(v.Stack) THEN [v EXCEPT !.Stack = Dup(v.Stack)] ELSE Crash(v)

hstorei(v) ==
    LET r == ReadBytes(v, 2)
        address == Mnemonic(v, r.bytes)
    IN  IF ~Holds(v.Stack, 8) THEN Crash(r.v)
        ELSE IF ~InArena(address, 8) THEN Crash(r.v)
        ELSE [r.v EXCEPT !.Stack = PopInt(v.Stack).s,
                         !.Heap = Write(v.Heap, PopInt(v.Stack).val, address)]

\* mutant: the new block does not record the length
hstoresWithoutLength(v) ==
    LET r == ReadBytes(v, 2)
        mnemonic == r.bytes
        address == Mnemonic(v, mnemonic)
    IN  IF ~HoldsString(v.Stack) THEN Crash(r.v)
        ELSE IF ~InArena(address, 8) THEN Crash(r.v)
        ELSE
        LET strBytes == PopString(v.Stack).val
            v1 == [r.v EXCEPT !.Stack = PopString(v.Stack).s]
            numBytes64 == Len(strBytes)
            allocatedBytes == ToUint64(Read(v.Heap, 8, address))
        IN  IF numBytes64 > allocatedBytes
            THEN LET a == VMAllocate([v1 EXCEPT !.Heap = Free(v.Heap, address)],
                                     8 + numBytes64)
                     newAddress == a.addr
                     v2 == [a.v EXCEPT !.mnemonicMap = MapPut(v1.mnemonicMap, mnemonic, newAddress)]
                 IN  IF a.v.st # "ok" THEN a.v
                     ELSE IF ~InArena(newAddress, 8 + numBytes64) THEN Crash(v2)
                     ELSE [v2 EXCEPT !.Heap =
                              Write(v2.Heap, strBytes, newAddress + 8)]
            ELSE IF ~InArena(address + 8, numBytes64) THEN Crash(v1)
            ELSE [v1 EXCEPT !.Heap = Write(v1.Heap, strBytes, address + 8)]

hstores(v) ==
    LET r == ReadBytes(v, 2)
        mnemonic == r.bytes
        address == Mnemonic(v, mnemonic)
    IN  IF ~HoldsString(v.Stack) THEN Crash(r.v)
        ELSE IF ~InArena(address, 8) THEN Crash(r.v)
        ELSE
        LET strBytes == PopString(v.Stack).val
            v1 == [r.v EXCEPT !.Stack = PopString(v.Stack).s]
            numBytes64 == Len(strBytes)
            allocatedBytes == ToUint64(Read(v.Heap, 8, address))
        IN  IF numBytes64 > allocatedBytes
            THEN LET a == VMAllocate([v1 EXCEPT !.Heap = Free(v.Heap, address)],
                                     8 + numBytes64)
                     newAddress == a.addr
                     v2 == [a.v EXCEPT !.mnemonicMap = MapPut(v1.mnemonicMap, mnemonic, newAddress)]
                 IN  IF a.v.st # "ok" THEN a.v
                     ELSE IF ~InArena(newAddress, 8 + numBytes64) THEN Crash(v2)
                     ELSE [v2 EXCEPT !.Heap =
                              Write(Write(v2.Heap, FromInt64(numBytes64), newAddress),
                                    strBytes, newAddress + 8)]
            ELSE IF ~InArena(address + 8, numBytes64) THEN Crash(v1)
            ELSE [v1 EXCEPT !.Heap = Write(v1.Heap, strBytes, address + 8)]

\* mutant: the cell is written with nextAddr first
hstorelNextFirst(v) ==
    LET r == ReadBytes(v, 2)
        address == Mnemonic(v, r.bytes)
    IN  IF ~Holds(v.Stack, 24) THEN Crash(r.v)
        ELSE IF ~InArena(address, 24) THEN Crash(r.v)
        ELSE LET cell == PopCell(v.Stack).val
             IN  [r.v EXCEPT !.Stack = PopCell(v.Stack).s,
                             !.Heap = Write(v.Heap, cell[3] \o cell[2] \o cell[1], address)]

hstorel(v) ==
    LET r == ReadBytes(v, 2)
        address == Mnemonic(v, r.bytes)
    IN  IF ~Holds(v.Stack, 24) THEN Crash(r.v)
        ELSE IF ~InArena(address, 24) THEN Crash(r.v)
        ELSE LET cell == PopCell(v.Stack).val
             IN  [r.v EXCEPT !.Stack = PopCell(v.Stack).s,
                             !.Heap = Write(v.Heap, cell[1] \o cell[2] \o cell[3], address)]

hloadi(v) ==
    LET r == ReadBytes(v, 2)
        address == Mnemonic(v, r.bytes)
    IN  IF ~InArena(address, 8) THEN Crash(r.v)
        ELSE [r.v EXCEPT !.Stack = PushInt(v.Stack, Read(v.Heap, 8, address))]

hloads(v) ==
    LET r == ReadBytes(v, 2)
        address == Mnemonic(v, r.bytes)
    IN  IF StringLength(v.Heap, address + 8, 0) < 0 THEN Crash(r.v)
        ELSE [r.v EXCEPT !.Stack = PushString(v.Stack, ReadString(v.Heap, address + 8))]

hloadl(v) ==
    LET r == ReadBytes(v, 2)
        address == Mnemonic(v, r.bytes)
    IN  IF ~InArena(address, 24) THEN Crash(r.v)
        ELSE [r.v EXCEPT !.Stack = PushCell(v.Stack, Read(v.Heap, 24, address))]

hnewi(v) ==
    LET r == ReadBytes(v, 2)
        a == VMAllocate(r.v, 8)
    IN  IF a.v.st # "ok" THEN a.v
        ELSE [a.v EXCEPT !.mnemonicMap = MapPut(v.mnemonicMap, r.bytes, a.addr)]

\* 8 + uint64(initialMemory), wrapping at 2^64
StringBlockSize(initialMemory) ==
    LET n == ToInt64(initialMemory)
    IN  IF n >= 0 \/ n >= 0 - 8 THEN 8 + n ELSE Huge

hnews(v) ==
    LET r == ReadBytes(v, 2)
    IN  IF ~Holds(v.Stack, 8) THEN Crash(r.v)
        ELSE
        LET initialMemory == PopInt(v.Stack).val
            a == VMAllocate([r.v EXCEPT !.Stack = PopInt(v.Stack).s],
                            StringBlockSize(initialMemory))
        IN  IF a.v.st # "ok" THEN a.v
            ELSE IF ~InArena(a.addr, 8) THEN Crash(a.v)
            ELSE [a.v EXCEPT !.mnemonicMap = MapPut(v.mnemonicMap, r.bytes, a.addr),
                             !.Heap = Write(a.v.Heap, initialMemory, a.addr)]

hnewl(v) ==
    LET r == ReadBytes(v, 2)
        a == VMAllocate(r.v, 24)
    IN  IF a.v.st # "ok" THEN a.v
        ELSE [a.v EXCEPT !.mnemonicMap = MapPut(v.mnemonicMap, r.bytes, a.addr)]

jmp(v) == jump(v)

jne(v) ==
    IF ~Holds(v.Stack, 1) THEN Crash(v)
    ELSE LET cmpResult == PopByte(v.Stack).top
             v1 == [v EXCEPT !.Stack = PopByte(v.Stack).s]
         IN  IF cmpResult # 0 THEN jump(v1) ELSE Seek(v1, 8)

addi(v) ==
    IF ~Holds(v.Stack, 16) THEN Crash(v)
    ELSE LET y == PopInt(v.Stack)
             x == PopInt(y.s)
         IN  [v EXCEPT !.Stack = PushInt(x.s, AddInt64(x.val, y.val))]

cmpi(v) ==
    IF ~Holds(v.Stack, 16) THEN Crash(v)
    ELSE LET y == PopInt(v.Stack)
             x == PopInt(y.s)
         IN  [v EXCEPT !.Stack =
                PushByte(x.s, IF x.val = y.val THEN 0
                              ELSE IF SignedLess(y.val, x.val) THEN 1
                              ELSE 2)]

cmpd(v) ==
    IF ~Holds(v.Stack, 16) THEN Crash(v)
    ELSE LET y == PopDouble(v.Stack)
             x == PopDouble(y.s)
         IN  [v EXCEPT !.Stack =
                PushByte(x.s, IF FloatEqual(x.val, y.val) THEN 0
                              ELSE IF FloatGreater(x.val, y.val) THEN 1
                              ELSE 2)]

syscall(v) ==
    LET r == ReadBytes(v, 1)
        number == r.bytes[1]
    IN  CASE number = 3 ->
                IF ~Holds(v.Stack, 8) THEN Crash(r.v)
                ELSE [r.v EXCEPT !.Stack = PopInt(v.Stack).s,
                                 !.console = Append(v.console, FormatInt(PopInt(v.Stack).val))]
          [] number = 4 ->
                IF ~Holds(v.Stack, 8) THEN Crash(r.v)
                ELSE [r.v EXCEPT !.Stack = PopDouble(v.Stack).s,
                                 !.console = Append(v.console, FormatFloat(PopDouble(v.Stack).val))]
          [] number = 5 ->
                IF ~HoldsString(v.Stack) THEN Crash(r.v)
                ELSE [r.v EXCEPT !.Stack = PopString(v.Stack).s,
                                 !.console = Append(v.console, [text |-> PopString(v.Stack).val])]
          [] number = 6 ->
                IF ~Holds(v.Stack, 8) THEN Crash(r.v)
                ELSE [r.v EXCEPT !.Stack = PopInt(v.Stack).s,
                                 !.exitCode = PopInt(v.Stack).val,
                                 !.finished = TRUE]
          [] OTHER -> r.v

hsmnem(v) ==
    LET r1 == ReadBytes(v, 2)
        r2 == ReadBytes(r1.v, 2)
    IN  [r2.v EXCEPT !.mnemonicMap = MapPut(v.mnemonicMap, r1.bytes, Mnemonic(v, r2.bytes))]

cmpl(v) ==
    IF ~Holds(v.Stack, 48) THEN Crash(v)
    ELSE LET first == PopCell(v.Stack)
             second == PopCell(first.s)
             firstAddress == first.val[2]
             secondAddress == second.val[2]
         IN  [v EXCEPT !.Stack =
                PushByte(second.s, IF firstAddress = secondAddress THEN 0
                                   ELSE IF UnsignedLess(secondAddress, firstAddress) THEN 1
                                   ELSE 2)]

hcar(v) ==
    IF ~Holds(v.Stack, 24) THEN Crash(v)
    ELSE LET cell == PopCell(v.Stack)
             numBytes == ToUint64(cell.val[1])
             dataAddress == ToUint64(cell.val[2])
         IN  IF ~InArena(dataAddress, numBytes) THEN Crash(v)
             ELSE LET cellData == Read(v.Heap, numBytes, dataAddress)
                  IN  [v EXCEPT !.Stack =
                         [PushBytes(cell.s, Reverse(cellData)) EXCEPT !.lenLastPushed = numBytes]]

hcdr(v) ==
    IF ~Holds(v.Stack, 24) THEN Crash(v)
    ELSE LET headCell == PopCell(v.Stack)
             cdrAddress == ToUint64(headCell.val[3])
         IN  IF ~InArena(cdrAddress, 24) THEN Crash(v)
             ELSE [v EXCEPT !.Stack = PushCell(headCell.s, Read(v.Heap, 24, cdrAddress))]

hscar(v) ==
    LET dataLength == v.Stack.lenLastPushed
    IN  IF ~Holds(v.Stack, dataLength + 24) THEN Crash(v)
        ELSE
        LET popped == PopBytesFront(v.Stack, dataLength, << >>)
            \* data = append(data, s.PopByte()): the top byte comes first
            data == Reverse(popped.val)
            cell == PopCell(popped.s)
            allocatedBytes == ToUint64(cell.val[1])
            v1 == [v EXCEPT !.Stack = cell.s]
        IN  IF dataLength > allocatedBytes
            THEN LET a == VMAllocate([v1 EXCEPT !.Heap = Free(v.Heap, ToUint64(cell.val[2]))],
                                     dataLength)
                 IN  IF a.v.st # "ok" THEN a.v
                     ELSE IF ~InArena(a.addr, dataLength) THEN Crash(a.v)
                     ELSE [a.v EXCEPT
                             !.Heap = Write(a.v.Heap, data, a.addr),
                             !.Stack = PushCell(cell.s, FromInt64(dataLength)
                                                \o FromInt64(a.addr) \o cell.val[3])]
            ELSE IF ~InArena(ToUint64(cell.val[2]), dataLength) THEN Crash(v1)
            ELSE [v1 EXCEPT
                    !.Heap = Write(v.Heap, data, ToUint64(cell.val[2])),
                    !.Stack = PushCell(cell.s, cell.val[1] \o cell.val[2] \o cell.val[3])]

hscdr(v) ==
    LET r == ReadBytes(v, 2)
        address == Mnemonic(v, r.bytes)
    IN  IF ~Holds(v.Stack, 24) THEN Crash(r.v)
        ELSE LET cell == PopCell(v.Stack)
             IN  [r.v EXCEPT !.Stack =
                    PushCell(cell.s, cell.val[1] \o cell.val[2] \o FromInt64(address))]

----------------------------------------------------------------------------
(* SpecVM: RunVM on a program of Programs.  Step is one action per case of *)
(* its switch.                                                             *)

\* the opcodes Step's switch has a case for
Handled == {3, 4, 5, 6, 7, 10, 12, 13, 22, 24, 25, 34, 36, 37, 44, 45, 54, 64, 65, 67, 68, 70, 71, 73, 75, 77}

Stepping(code) ==
    /\ status = "ok"
    /\ CanStep(VM)
    /\ last.count < MaxSteps
    /\ opcodes[cursor + 1] = code

\* NextOpcode has read the opcode
AfterOpcode == [VM EXCEPT !.cursor = cursor + 1]

\* the handler's outcome becomes the state; a panic or a hang ends the run
Apply(name, v) ==
    /\ IF v.st = "ok"
       THEN /\ Stack' = v.Stack
            /\ Heap' = v.Heap
            /\ cursor' = v.cursor
            /\ mnemonicMap' = v.mnemonicMap
            /\ console' = v.console
            /\ finished' = v.finished
            /\ exitCode' = v.exitCode
            /\ status' = "ok"
       ELSE /\ status' = v.st
            /\ UNCHANGED <<Stack, Heap, cursor, mnemonicMap, console, finished, exitCode>>
    /\ last' = [op |-> name, at |-> cursor, count |-> last.count + 1]
    /\ prev' = last
    /\ UNCHANGED <<opcodes, returned, live, idle, lexVars>>

StepPushi == Stepping(3) /\ Apply("pushi", pushi(AfterOpcode))

StepPushd == Stepping(4) /\ Apply("pushd", pushd(AfterOpcode))

StepPushs == Stepping(5) /\ Apply("pushs", pushs(AfterOpcode))

StepCons == Stepping(6) /\ Apply("cons", cons(AfterOpcode))

StepDup == Stepping(7) /\ Apply("dup", dup(AfterOpcode))

StepHstorei == Stepping(10) /\ Apply("hstorei", hstorei(AfterOpcode))

StepHstores == Stepping(12) /\ Apply("hstores", hstores(AfterOpcode))

StepHstorel == Stepping(13) /\ Apply("hstorel", hstorel(AfterOpcode))

StepHloadi == Stepping(22) /\ Apply("hloadi", hloadi(AfterOpcode))

StepHloads == Stepping(24) /\ Apply("hloads", hloads(AfterOpcode))

StepHloadl == Stepping(25) /\ Apply("hloadl", hloadl(AfterOpcode))

StepHnewi == Stepping(34) /\ Apply("hnewi", hnewi(AfterOpcode))

StepHnews == Stepping(36) /\ Apply("hnews", hnews(AfterOpcode))

StepHnewl == Stepping(37) /\ Apply("hnewl", hnewl(AfterOpcode))

StepJmp == Stepping(44) /\ Apply("jmp", jmp(AfterOpcode))

StepJne == Stepping(45) /\ Apply("jne", jne(AfterOpcode))

StepAddi == Stepping(54) /\ Apply("addi", addi(AfterOpcode))

StepCmpi == Stepping(64) /\ Apply("cmpi", cmpi(AfterOpcode))

StepCmpd == Stepping(65) /\ Apply("cmpd", cmpd(AfterOpcode))

StepSyscall == Stepping(67) /\ Apply("syscall", syscall(AfterOpcode))

StepHsmnem == Stepping(68) /\ Apply("hsmnem", hsmnem(AfterOpcode))

StepCmpl == Stepping(70) /\ Apply("cmpl", cmpl(AfterOpcode))

StepHcar == Stepping(71) /\ Apply("hcar", hcar(AfterOpcode))

StepHcdr == Stepping(73) /\ Apply("hcdr", hcdr(AfterOpcode))

StepHscar == Stepping(75) /\ Apply("hscar", hscar(AfterOpcode))

StepHscdr == Stepping(77) /\ Apply("hscdr", hscdr(AfterOpcode))

\* mutant: an opcode without a case takes an operand byte with it
StepUnknownWithOperand ==
    /\ status = "ok"
    /\ CanStep(VM)
    /\ last.count < MaxSteps
    /\ opcodes[cursor + 1] \notin Handled
    /\ Apply("unknown", ReadBytes(AfterOpcode, 1).v)

\* an opcode without a case: nothing but the opcode is consumed
StepUnknown ==
    /\ status = "ok"
    /\ CanStep(VM)
    /\ last.count < MaxSteps
    /\ opcodes[cursor + 1] \notin Handled
    /\ Apply("unknown", AfterOpcode)

\* Step on a VM that cannot step returns at once
StepIdle ==
    /\ status = "ok"
    /\ ~CanStep(VM)
    /\ idle < MaxIdle
    /\ idle' = idle + 1
    /\ UNCHANGED <<Heap, Stack, opcodes, cursor, mnemonicMap, console, finished,
                   exitCode, status, returned, live, last, prev, lexVars>>

\* RunVM leaves its loop and returns vm.ExitCode()
RunReturn ==
    /\ status = "ok"
    /\ ~CanStep(VM)
    /\ status' = "returned"
    /\ returned' = exitCode
    /\ UNCHANGED <<Heap, Stack, opcodes, cursor, mnemonicMap, console, finished,
                   exitCode, live, last, prev, idle, lexVars>>

RECURSIVE Flatten(_)
Flatten(parts) == IF parts = << >> THEN << >> ELSE Head(parts) \o Flatten(Tail(parts))

\* the instructions the generated programs are made of
Snippets ==
    { <<3>> \o FromInt64(4),            \* pushi 4
      <<3>> \o FromInt64(0),            \* pushi 0
      <<5, 72, 105, 0>>,                \* pushs "Hi"
      <<6>>,                            \* cons
      <<7>>,                            \* dup
      <<75>>,                           \* hscar
      <<71>>,                           \* hcar
      <<36, 1, 1>>,                     \* hnews  mnemonic 0101
      <<12, 1, 1>>,                     \* hstores mnemonic 0101
      <<34, 2, 2>>,                     \* hnewi  mnemonic 0202
      <<44>> \o FromInt64(9),           \* jmp +9
      <<44>> \o FromInt64(0 - 10),      \* jmp -10
      <<67, 3>>,                        \* syscall print integer
      <<67, 6>> }                       \* syscall exit

\* hand-written programs: the tests' programs and a use of every opcode
CuratedPrograms ==
    { \* TestHelloWorld, shortened: pushs "Hi\n"; print string; pushi 0; exit
      <<5, 72, 105, 10, 0, 67, 5, 3>> \o FromInt64(0) \o <<67, 6>>,
      \* TestHelloUnicode, shortened: pushs "こ!"; print string
      <<5, 227, 129, 147, 33, 0, 67, 5>>,
      \* TestDouble: pushd pi; print double; pushi 0; exit
      <<4, 24, 45, 68, 84, 251, 33, 9, 64, 67, 4, 3>> \o FromInt64(0) \o <<67, 6>>,
      \* TestUnconditionalJump
      <<3>> \o FromInt64(4) \o <<44>> \o FromInt64(9)
          \o <<3, 222, 173, 190, 239, 222, 173, 190, 239, 67, 3, 3>> \o FromInt64(0) \o <<67, 6>>,
      \* hnewi a; pushi 7; hstorei a; hloadi a; pushi 7; cmpi; jne +2; syscall 3
      <<34, 2, 2, 3>> \o FromInt64(7) \o <<10, 2, 2, 22, 2, 2, 3>> \o FromInt64(7)
          \o <<64, 45>> \o FromInt64(2) \o <<67, 3>>,
      \* pushi 1; pushi 2; addi; print integer
      <<3>> \o FromInt64(1) \o <<3>> \o FromInt64(2) \o <<54, 67, 3>>,
      \* pushi 2; hnews s; pushs "Hi"; hstores s; hsmnem t s; hloads t; print string
      <<3>> \o FromInt64(2) \o <<36, 1, 1, 5, 72, 105, 0, 12, 1, 1, 68, 3, 3, 1, 1, 24, 3, 3, 67, 5>>,
      \* hnewl a; cons; pushi 5; hscar; hstorel a; hloadl a; hcar; print integer
      <<37, 4, 4, 6, 3>> \o FromInt64(5) \o <<75, 13, 4, 4, 25, 4, 4, 71, 67, 3>>,
      \* hnewl a; cons; hscdr a; dup; hcdr; hcar
      <<37, 4, 4, 6, 77, 4, 4, 7, 73, 71>>,
      \* hnewl a; hloadl a; cons; cmpl; pushd 1.0; pushd pi; cmpd; pushb 1 (no case)
      <<37, 4, 4, 25, 4, 4, 6, 70, 4, 0, 0, 0, 0, 0, 0, 240, 63,
        4, 24, 45, 68, 84, 251, 33, 9, 64, 65, 1, 1>>,
      \* pushi -1; jne +1; cons; cons (the byte popped is 0xFF)
      <<3>> \o FromInt64(0 - 1) \o <<45>> \o FromInt64(1) \o <<6, 6>>,
      \* pushi -1; jne -9 (back onto the jne itself)
      <<3>> \o FromInt64(0 - 1) \o <<45>> \o FromInt64(0 - 9),
      \* pushi -1; jne -19 (one byte before the start of the program)
      <<3>> \o FromInt64(0 - 1) \o <<45>> \o FromInt64(0 - 19),
      \* pushi 4; pushi -1; cmpi
      <<3>> \o FromInt64(4) \o <<3>> \o FromInt64(0 - 1) \o <<64>>,
      \* pushi -1; pushi 4; cmpi
      <<3>> \o FromInt64(0 - 1) \o <<3>> \o FromInt64(4) \o <<64>>,
      \* pushs "\u00e9" (C3 A9); cons
      <<5, 195, 169, 0, 6>>,
      \* pushs "\u0434" (D0 B4); cons; cons
      <<5, 208, 180, 0, 6, 6>>,
      \* pushs "\U0001F600" (F0 9F 98 80); cons
      <<5, 240, 159, 152, 128, 0, 6>>,
      \* pushi 4; syscall 1 (print boolean); cons
      <<3>> \o FromInt64(4) \o <<67, 1, 6>>,
      \* pushi 4; syscall 2 (print character); cons
      <<3>> \o FromInt64(4) \o <<67, 2, 6>>,
      \* pushb 6: opcode 0x01 with the operand 0x06
      <<1, 6>>,
      \* hnewi b; pushi 0; hnews s; pushs "a" x 25; hstores s; hloadi b
      <<34, 2, 2, 3>> \o FromInt64(0) \o <<36, 1, 1, 5>> \o [i \in 1..25 |-> 97]
          \o <<0, 12, 1, 1, 22, 2, 2>>,
      \* pushi 2; hnews s; hsmnem t s; pushs "a" x 55; hstores s; hloads t
      <<3>> \o FromInt64(2) \o <<36, 1, 1, 68, 3, 3, 1, 1, 5>> \o [i \in 1..55 |-> 97]
          \o <<0, 12, 1, 1, 24, 3, 3>>,
      \* pushs "Hi" without a terminator
      <<5, 72, 105>>,
      \* cons; pushs "H" and the lead byte of a 4-byte sequence, at the end
      <<6, 5, 72, 240>>,
      \* cons; pushi 0; pushi 1; pushi 0 (a cell with data address 1); cmpl
      <<6, 3>> \o FromInt64(0) \o <<3>> \o FromInt64(1) \o <<3>> \o FromInt64(0) \o <<70>>,
      \* pushi 0; pushi 1; pushi 0 (a cell with data address 1); cons; cmpl
      <<3>> \o FromInt64(0) \o <<3>> \o FromInt64(1) \o <<3>> \o FromInt64(0) \o <<6, 70>>,
      \* pushi 4; hnews s; pushs "Hi"; hstores s; hloads s
      <<3>> \o FromInt64(4) \o <<36, 1, 1, 5, 72, 105, 0, 12, 1, 1, 24, 1, 1>>,
      \* pushi 4; hnews s; pushs "Hi"; hstores s; pushs "Hi"; hstores s
      <<3>> \o FromInt64(4) \o <<36, 1, 1, 5, 72, 105, 0, 12, 1, 1, 5, 72, 105, 0, 12, 1, 1>>,
      \* cons; pushi 4; hscar; hcar
      <<6, 3>> \o FromInt64(4) \o <<75, 71>>,
      \* cons; pushd pi; hscar; hcar
      <<6, 4, 24, 45, 68, 84, 251, 33, 9, 64, 75, 71>>,
      \* cons; pushi 4; hscar; pushi 258; hscar; hcar (the second value goes in place)
      <<6, 3>> \o FromInt64(4) \o <<75, 3>> \o FromInt64(258) \o <<75, 71>>,
      \* cons; cons; hscar (a cell as the car of a cell); pushi 4; hscar; hcar
      <<6, 6, 75, 3>> \o FromInt64(4) \o <<75, 71>>,
      \* hnewi a; pushi 258; hstorei a; hloadi a
      <<34, 2, 2, 3>> \o FromInt64(258) \o <<10, 2, 2, 22, 2, 2>>,
      \* hnewl a; pushi 3; pushi 2; pushi 1 (a cell); hstorel a; hloadl a
      <<37, 4, 4, 3>> \o FromInt64(3) \o <<3>> \o FromInt64(2) \o <<3>> \o FromInt64(1)
          \o <<13, 4, 4, 25, 4, 4>>,
      \* hnewi a; hnewi b; pushi 4; pushi 258; hstorei b; hstorei a; hloadi b
      <<34, 2, 2, 34, 3, 3, 3>> \o FromInt64(4) \o <<3>> \o FromInt64(258)
          \o <<10, 3, 3, 10, 2, 2, 22, 3, 3>>,
      \* pushi 4; 0xFF (no case); syscall 9 (no case); cons
      <<3>> \o FromInt64(4) \o <<255, 67, 9, 6>>,
      \* pushi 4; syscall: the operand is missing
      <<3>> \o FromInt64(4) \o <<67>> }

Programs ==
    CuratedPrograms \cup
    {Flatten(parts) : parts \in UNION {[1..n -> Snippets] : n \in 0..MaxProgLen}}

InitVM ==
    /\ InitCommon
    /\ opcodes \in Programs
    /\ cursor = 0

NextVM ==
    \/ StepPushi
    \/ StepPushd
    \/ StepPushs
    \/ StepCons
    \/ StepDup
    \/ StepHstorei
    \/ StepHstores
    \/ StepHstorel
    \/ StepHloadi
    \/ StepHloads
    \/ StepHloadl
    \/ StepHnewi
    \/ StepHnews
    \/ StepHnewl
    \/ StepJmp
    \/ StepJne
    \/ StepAddi
    \/ StepCmpi
    \/ StepCmpd
    \/ StepSyscall
    \/ StepHsmnem
    \/ StepCmpl
    \/ StepHcar
    \/ StepHcdr
    \/ StepHscar
    \/ StepHscdr
    \/ StepUnknown
    \/ StepIdle
    \/ RunReturn

SpecVM == InitVM /\ [][NextVM]_vars

----------------------------------------------------------------------------
(* Properties of the VM, checked under SpecVM.                             *)

\* C5: in every state reached by running the VM on a program, no address is
\* in the free lists of two different orders at once.
C5_NoAddressAtTwoOrders ==
    \A k1 \in DOMAIN Heap.unusedBlocks : \A k2 \in DOMAIN Heap.unusedBlocks :
        k1 # k2 =>
            \A i \in 1..Len(Heap.unusedBlocks[k1]) :
                \A j \in 1..Len(Heap.unusedBlocks[k2]) :
                    Heap.unusedBlocks[k1][i] # Heap.unusedBlocks[k2][j]

\* the next opcode is syscall 0x06 and the stack holds the 8 bytes it pops
ExitStep ==
    /\ status = "ok"
    /\ CanStep(VM)
    /\ cursor + 2 <= Len(opcodes)
    /\ opcodes[cursor + 1] = 67
    /\ opcodes[cursor + 2] = 6
    /\ Holds(Stack, 8)

\* C9: syscall 0x06 pops one 8-byte int, sets finished and records the int
\* as the exit code; once finished, CanStep is false and no step changes
\* cursor, stack, heap, mnemonic table, console or exit code; what RunVM
\* returns is the exit code, and it is 0 when no exit syscall has run.
C9_ExitStopsTheMachine ==
    /\ [][ExitStep => /\ finished'
                      /\ exitCode' = PopInt(Stack).val
                      /\ Stack' = PopInt(Stack).s]_vars
    /\ [][finished => /\ ~CanStep(VM)
                      /\ finished'
                      /\ exitCode' = exitCode
                      /\ UNCHANGED <<cursor, Stack, Heap, mnemonicMap, console>>]_vars
    /\ [](status = "returned" => returned = exitCode)
    /\ [](status = "returned" /\ ~finished => returned = FromInt64(0))

\* an exit with code 4 before the end of the program: Step was called on
\* the finished VM, and RunVM has returned 4
C9_Witness ==
    /\ status = "returned"
    /\ finished
    /\ returned = FromInt64(4)
    /\ cursor < Len(opcodes)
    /\ idle > 0

\* the next opcode is jmp and its 8 operand bytes are in the buffer
JmpStep ==
    /\ status = "ok"
    /\ CanStep(VM)
    /\ opcodes[cursor + 1] = 44
    /\ cursor + 9 <= Len(opcodes)

\* the operand of the jmp at the cursor
JmpOffset == ToInt64(SubSeq(opcodes, cursor + 2, cursor + 9))

\* C10: jmp at index p with operand k makes p + 9 + k the index of the next
\* opcode fetched, and leaves stack, heap and mnemonic table unchanged.
C10_JmpIsRelativeToOperandEnd ==
    [][JmpStep => /\ cursor' = cursor + 9 + JmpOffset
                  /\ UNCHANGED <<Stack, Heap, mnemonicMap>>]_vars

\* the next opcode is jne, its 8 operand bytes are in the buffer and the
\* stack holds the byte it pops
JneStep ==
    /\ status = "ok"
    /\ CanStep(VM)
    /\ opcodes[cursor + 1] = 45
    /\ cursor + 9 <= Len(opcodes)
    /\ Holds(Stack, 1)

\* the operand of the jne at the cursor
JneOffset == ToInt64(SubSeq(opcodes, cursor + 2, cursor + 9))

\* C11: jne pops exactly one byte; if the byte is non-zero the cursor becomes
\* the position after the 8-byte operand plus the signed offset, and if it
\* is zero the cursor advances over exactly the 8 operand bytes.
C11_JneJumpsOnNonZero ==
    [][JneStep => /\ Stack' = PopByte(Stack).s
                  /\ cursor' = IF PopByte(Stack).top # 0
                                THEN cursor + 9 + JneOffset
                                ELSE cursor + 9]_vars

\* the part of C11 the code keeps: the jne whose target is not before the
\* start of the program
C11_JneWithTargetInProgram ==
    [][JneStep /\ (PopByte(Stack).top = 0 \/ cursor + 9 + JneOffset >= 0)
         => /\ Stack' = PopByte(Stack).s
            /\ cursor' = IF PopByte(Stack).top # 0
                          THEN cursor + 9 + JneOffset
                          ELSE cursor + 9]_vars

\* a jne has jumped backward, and a jne has skipped its operand
C11_TakenBackward ==
    last.op = "jne" /\ status = "ok" /\ cursor = last.at /\ last.count > 1

C11_NotTaken ==
    last.op = "jne" /\ status = "ok" /\ cursor = last.at + 9 /\ prev.op = "cmpi"

\* the next opcode is cmpi and the stack holds the two ints it pops
CmpiStep ==
    /\ status = "ok"
    /\ CanStep(VM)
    /\ opcodes[cursor + 1] = 64
    /\ Holds(Stack, 16)

\* the operands of the cmpi at the cursor: y on top, x below it
CmpiY == ToInt64(SubSeq(Stack.byteStack, Stack.len - 7, Stack.len))

CmpiX == ToInt64(SubSeq(Stack.byteStack, Stack.len - 15, Stack.len - 8))

\* C12: cmpi pops y (top) then x (below) as signed 64-bit ints and pushes
\* exactly one byte, 0 if x = y, 1 if x > y, 2 if x < y; the stack is 15
\* bytes shorter and lenLastPushed is 1.
C12_CmpiPushesOrderByte ==
    [][CmpiStep =>
         /\ Stack'.byteStack =
               Append(SubSeq(Stack.byteStack, 1, Stack.len - 16),
                      IF CmpiX = CmpiY THEN 0 ELSE IF CmpiX > CmpiY THEN 1 ELSE 2)
         /\ Stack'.len = Stack.len - 15
         /\ Stack'.lenLastPushed = 1]_vars

\* cmpi has compared x = 4 with y = -1 and pushed 1
C12_Witness ==
    /\ last.op = "cmpi"
    /\ status = "ok"
    /\ opcodes = <<3>> \o FromInt64(4) \o <<3>> \o FromInt64(0 - 1) \o <<64>>
    /\ Stack.byteStack = <<1>>

\* the length UTF-8 gives the sequence that starts with lead byte b, 0 for a
\* byte that starts none
Utf8Length(b) ==
    IF b < 128 THEN 1
    ELSE IF b >= 194 /\ b <= 223 THEN 2
    ELSE IF b >= 224 /\ b <= 239 THEN 3
    ELSE IF b >= 240 /\ b <= 244 THEN 4
    ELSE 0

Utf8Continuation(b) == b >= 128 /\ b <= 191

\* the index in opcodes of the 0x00 that ends the well-formed UTF-8 text
\* starting at index i, 0 when there is none
RECURSIVE Utf8Terminator(_)
Utf8Terminator(i) ==
    IF i > Len(opcodes) THEN 0
    ELSE IF opcodes[i] = 0 THEN i
    ELSE LET n == Utf8Length(opcodes[i])
         IN  IF n = 0 \/ i + n - 1 > Len(opcodes) THEN 0
             ELSE IF \A j \in (i + 1)..(i + n - 1) : Utf8Continuation(opcodes[j])
                  THEN Utf8Terminator(i + n)
                  ELSE 0

\* the next opcode is pushs and its operand is well-formed UTF-8 ended by 0x00
PushsStep ==
    /\ status = "ok"
    /\ CanStep(VM)
    /\ opcodes[cursor + 1] = 5
    /\ Utf8Terminator(cursor + 2) # 0

\* the operand of the pushs at the cursor, terminator included
PushsOperand == SubSeq(opcodes, cursor + 2, Utf8Terminator(cursor + 2))

\* C13: for a well-formed UTF-8 operand ended by 0x00, pushs pushes the
\* operand bytes up to and including the first 0x00, then the 8-byte count
\* of those bytes, and leaves the cursor just after the terminator.
C13_PushsStopsAtTerminator ==
    [][PushsStep =>
         /\ Stack'.byteStack =
               Stack.byteStack \o PushsOperand \o FromInt64(Len(PushsOperand))
         /\ cursor' = Utf8Terminator(cursor + 2)]_vars

\* the part of C13 the code keeps: no lead byte of 0xD0..0xDF in the operand
C13_PushsWithoutDLead ==
    [][PushsStep /\ (\A i \in 1..Len(PushsOperand) : PushsOperand[i] \div 16 # 13) =>
         /\ Stack'.byteStack =
               Stack.byteStack \o PushsOperand \o FromInt64(Len(PushsOperand))
         /\ cursor' = Utf8Terminator(cursor + 2)]_vars

\* pushs has read a 2-byte, a 3-byte and a 4-byte sequence
C13_PushedTwoByteRune ==
    last.op = "pushs" /\ status = "ok" /\ Stack.byteStack = <<195, 169, 0>> \o FromInt64(3)

C13_PushedFourByteRune ==
    last.op = "pushs" /\ status = "ok" /\ cursor = 6
        /\ Stack.byteStack = <<240, 159, 152, 128, 0>> \o FromInt64(5)

\* pushs has run over the terminator of "\u0434"
C13_RanOverTerminator ==
    last.op = "pushs" /\ status = "ok" /\ opcodes = <<5, 208, 180, 0, 6, 6>> /\ cursor = 6

\* the operand of the syscall at the cursor
SyscallNumber == opcodes[cursor + 2]

\* the next opcode is a syscall with operand n and the stack holds the value
\* it is to print: a byte for a boolean or a character, 8 bytes for an int
\* or a double, the length and the bytes for a string
PrintStep(n) ==
    /\ status = "ok"
    /\ CanStep(VM)
    /\ cursor + 2 <= Len(opcodes)
    /\ opcodes[cursor + 1] = 67
    /\ SyscallNumber = n
    /\ CASE n \in {1, 2} -> Holds(Stack, 1)
         [] n \in {3, 4} -> Holds(Stack, 8)
         [] n = 5 -> HoldsString(Stack)

\* one value leaves the stack and Console.Write is called once, with the
\* decimal text of an int and the popped bytes of a string
PrintsOnce(n) ==
    /\ Len(console') = Len(console) + 1
    /\ SubSeq(console', 1, Len(console)) = console
    /\ Stack'.len < Stack.len
    /\ n = 3 => /\ console'[Len(console')] = FormatInt(PopInt(Stack).val)
                /\ Stack' = PopInt(Stack).s
    /\ n = 4 => Stack' = PopDouble(Stack).s
    /\ n = 5 => /\ console'[Len(console')] = [text |-> PopString(Stack).val]
                /\ Stack' = PopString(Stack).s

\* C14: each syscall with operand 0x01..0x05 pops one value of its type and
\* calls Console.Write exactly once with that value's text; no other opcode
\* or syscall writes to the console.
C14_PrintSyscallsWriteOnce ==
    [][/\ \A n \in 1..5 : PrintStep(n) => PrintsOnce(n)
       /\ (\A n \in 1..5 : ~PrintStep(n)) => console' = console]_vars

\* the part of C14 the code keeps: the syscalls 0x03, 0x04 and 0x05, and the
\* silence of everything else
C14_ImplementedPrintsWriteOnce ==
    [][/\ \A n \in 3..5 : PrintStep(n) => PrintsOnce(n)
       /\ (\A n \in 3..5 : ~PrintStep(n)) => console' = console]_vars

\* syscall 0x01 has run with a value on the stack and nothing was written
C14_PrintBooleanIsSilent ==
    /\ last.op = "syscall"
    /\ status = "ok"
    /\ opcodes = <<3>> \o FromInt64(4) \o <<67, 1, 6>>
    /\ console = << >>
    /\ Stack.len = 8

\* the next opcode is 0x01 (pushb) and its operand byte is in the buffer
PushbStep ==
    /\ status = "ok"
    /\ CanStep(VM)
    /\ opcodes[cursor + 1] = 1
    /\ cursor + 2 <= Len(opcodes)

\* C15: opcode 0x01 (pushb) consumes its 1-byte operand and pushes that byte:
\* the stack is one byte longer, lenLastPushed is 1 and the cursor has moved
\* by 2, so the operand is never taken for an opcode.
C15_PushbPushesItsOperand ==
    [][PushbStep => /\ Stack' = PushByte(Stack, opcodes[cursor + 2])
                    /\ cursor' = cursor + 2]_vars

\* the operand 0x06 of a pushb has been executed as cons
C15_OperandRanAsOpcode ==
    /\ opcodes = <<1, 6>>
    /\ last = [op |-> "cons", at |-> 1, count |-> 2]
    /\ prev.op = "unknown"
    /\ Stack.len = 24

----------------------------------------------------------------------------
(* LexExp (src/unnamed/part_000).  A character is its ASCII code, a string *)
(* the sequence of its codes; the inputs are ASCII, where a rune is a byte *)
(* and range's index is the byte index peek takes.  A token is            *)
(* [Type, Value]; Value is [bytes |-> b] for a payload of bytes b, and a   *)
(* FloatLiteral's payload is described by the number it encodes.           *)

MaxInputLen == 3        \* characters of a generated input of SpecLex

IsSpace(c) == c \in {9, 10, 11, 12, 13, 32}

IsLetter(c) == c \in (65..90) \cup (97..122)

IsNumber(c) == c \in 48..57

\* "!$%&*/:<=>?^_~"
specialInitials == {33, 36, 37, 38, 42, 47, 58, 60, 61, 62, 63, 94, 95, 126}

\* "+-/*<=>"
operatorChars == {43, 45, 47, 42, 60, 61, 62}

NewTokenString(tokenType, tokenString) == [Type |-> tokenType, Value |-> [bytes |-> tokenString]]

NewTokenRaw(tokenType, tokenBuffer) == [Type |-> tokenType, Value |-> tokenBuffer]

AllDigits(text) == \A i \in 1..Len(text) : IsNumber(text[i])

RECURSIVE DigitsValue(_)
DigitsValue(text) ==
    IF text = << >> THEN 0
    ELSE 10 * DigitsValue(SubSeq(text, 1, Len(text) - 1)) + (text[Len(text)] - 48)

\* A 64-bit integer x >= 0 is kept as the sequence of its base-128 digits,
\* lowest first and without high zeros (0 is the empty sequence): the
\* groups of 7 bits binary.PutVarint writes.

\* the digits of m * x + carry
RECURSIVE MulAdd(_, _, _)
MulAdd(x, m, carry) ==
    IF x = << >>
    THEN IF carry = 0 THEN << >> ELSE <<carry % 128>> \o MulAdd(<< >>, m, carry \div 128)
    ELSE <<(x[1] * m + carry) % 128>> \o MulAdd(Tail(x), m, (x[1] * m + carry) \div 128)

RECURSIVE DigitsInt64(_)
DigitsInt64(text) ==
    IF text = << >> THEN << >>
    ELSE MulAdd(DigitsInt64(SubSeq(text, 1, Len(text) - 1)), 10, text[Len(text)] - 48)

\* 1<<63 - 1
MaxInt64 == [i \in 1..9 |-> 127]

\* strconv.ParseInt(s, 10, 64) of an unsigned text, the error dropped: 0
\* for a text that is not a number, 1<<63 - 1 for a number out of range
ParseInt(text) ==
    IF text # << >> /\ AllDigits(text)
    THEN IF Len(DigitsInt64(text)) > 9 THEN MaxInt64 ELSE DigitsInt64(text)
    ELSE << >>

\* binary.PutUvarint: every group of 7 bits but the last carries bit 0x80
Uvarint(ux) ==
    IF ux = << >> THEN <<0>>
    ELSE [i \in 1..Len(ux) |-> IF i < Len(ux) THEN ux[i] + 128 ELSE ux[i]]

\* binary.PutVarint into a [binary.MaxVarintLen64]byte: the zig-zag code of
\* x >= 0 is uint64(x) << 1; the rest of the 10 bytes stays 0
PutVarint(x) ==
    Uvarint(MulAdd(x, 2, 0)) \o [i \in 1..(10 - Len(Uvarint(MulAdd(x, 2, 0)))) |-> 0]

RECURSIVE Normal(_, _)
Normal(num, scale) ==
    IF scale > 0 /\ num % 10 = 0 THEN Normal(num \div 10, scale - 1)
    ELSE [num |-> num, scale |-> scale]

\* strconv.ParseFloat(s, 64) of an unsigned text without exponent, the
\* error dropped: the number num / 10^scale, 0 for a text that is not a number
ParseFloat(text) ==
    LET dots == {i \in 1..Len(text) : text[i] = 46}
        digits == SelectSeq(text, IsNumber)
    IN  IF Cardinality(dots) = 1 /\ Len(digits) = Len(text) - 1 /\ digits # << >>
        THEN Normal(DigitsValue(digits), Len(text) - (CHOOSE i \in dots : TRUE))
        ELSE IF text # << >> /\ AllDigits(text) THEN Normal(DigitsValue(text), 0)
        ELSE [num |-> 0, scale |-> 0]

\* the 10-byte buffer: 8 bytes math.Float64bits little endian and 2 bytes 0,
\* or the varint
bufferStringToNum(tokenType, inputBuffer) ==
    IF tokenType = "FloatLiteral"
    THEN [float64 |-> ParseFloat(inputBuffer), pad |-> 2]
    ELSE [bytes |-> PutVarint(ParseInt(inputBuffer))]

\* the token list after the flush; the callers reset the buffer and the type
flushAccumulator(accumulatorType, buffer, tokenBuffer) ==
    IF accumulatorType = "FloatLiteral" \/ accumulatorType = "IntLiteral"
    THEN Append(tokenBuffer, NewTokenRaw(accumulatorType, bufferStringToNum(accumulatorType, buffer)))
    ELSE Append(tokenBuffer, NewTokenRaw(accumulatorType, [bytes |-> buffer]))

\* mutant: peek returns the current character
peekCurrent(in, at) == IF Len(in) - 1 = at THEN 0 ELSE in[at + 1]

peek(in, at) == IF Len(in) - 1 = at THEN 0 ELSE in[at + 2]

glyph == input[currentIndex + 1]

\* the branch of the loop body the glyph takes.  unicode.IsSpace holds of
\* "\n", so the branch glyph == "\n" that follows it is never taken.
Branch ==
    IF overrideState = "Ident" THEN "overrideIdent"
    ELSE IF overrideState = "String" THEN "overrideString"
    ELSE IF IsSpace(glyph) THEN "space"
    ELSE IF glyph = 10 THEN "newline"
    ELSE IF glyph = 40 THEN "lparen"
    ELSE IF glyph = 41 THEN "rparen"
    ELSE IF glyph = 34 THEN "quote"
    ELSE IF glyph \in operatorChars /\ accumulatingType \in {"Op", "None"} THEN "operator"
    ELSE IF glyph = 124 THEN "bar"
    ELSE IF glyph = 46 THEN "dot"
    ELSE IF glyph = 35 \/ (accumulating /\ accumulatingType = "BoolLiteral") THEN "bool"
    ELSE IF IsLetter(glyph) THEN "letter"
    ELSE IF glyph \in specialInitials THEN "specialInitial"
    ELSE IF IsNumber(glyph) THEN "number"
    ELSE "other"

InLoop(branch) ==
    /\ status = "ok"
    /\ currentIndex < Len(input)
    /\ Branch = branch

\* the locals at the end of the loop body
EndOfBody(branch, t, acc, type, buffer, override) ==
    /\ tokens' = t
    /\ accumulating' = acc
    /\ accumulatingType' = type
    /\ accumulatorBuffer' = buffer
    /\ overrideState' = override
    /\ currentIndex' = currentIndex + 1
    /\ last' = [op |-> branch, at |-> currentIndex, count |-> last.count + 1]
    /\ prev' = last
    /\ UNCHANGED <<input, program, Heap, Stack, vmVars, status, live>>

\* tokens, type and buffer after "if accumulating == true { flush }"
Flushed == flushAccumulator(accumulatingType, accumulatorBuffer, tokens)

LexOverrideIdent ==
    /\ InLoop("overrideIdent")
    /\ IF glyph = 124
       THEN EndOfBody("overrideIdent",
                      flushAccumulator(accumulatingType, Append(accumulatorBuffer, glyph), tokens),
                      FALSE, "None", << >>, "None")
       ELSE EndOfBody("overrideIdent", tokens, accumulating, accumulatingType,
                      Append(accumulatorBuffer, glyph), overrideState)

LexOverrideString ==
    /\ InLoop("overrideString")
    /\ IF glyph = 34
       THEN EndOfBody("overrideString", Flushed, FALSE, "None", << >>, "None")
       ELSE EndOfBody("overrideString", tokens, accumulating, accumulatingType,
                      Append(accumulatorBuffer, glyph), overrideState)

LexSpace ==
    /\ InLoop("space")
    /\ IF accumulating
       THEN EndOfBody("space", Flushed, FALSE, "None", << >>, overrideState)
       ELSE EndOfBody("space", tokens, accumulating, accumulatingType,
                      accumulatorBuffer, overrideState)

LexLParen ==
    /\ InLoop("lparen")
    /\ IF accumulating
       THEN EndOfBody("lparen", Append(Flushed, NewTokenString("LParen", <<glyph>>)),
                      FALSE, "None", << >>, overrideState)
       ELSE EndOfBody("lparen", Append(tokens, NewTokenString("LParen", <<glyph>>)),
                      accumulating, accumulatingType, accumulatorBuffer, overrideState)

LexRParen ==
    /\ InLoop("rparen")
    /\ IF accumulating
       THEN EndOfBody("rparen", Append(Flushed, NewTokenString("RParen", <<glyph>>)),
                      FALSE, "None", << >>, overrideState)
       ELSE EndOfBody("rparen", Append(tokens, NewTokenString("RParen", <<glyph>>)),
                      accumulating, accumulatingType, accumulatorBuffer, overrideState)

\* mutant: the opening quote is kept in the accumulator
LexQuoteKept ==
    /\ InLoop("quote")
    /\ IF accumulating
       THEN EndOfBody("quote", Flushed, TRUE, "StringLiteral", <<glyph>>, "String")
       ELSE EndOfBody("quote", tokens, TRUE, "StringLiteral",
                      Append(accumulatorBuffer, glyph), "String")

LexQuote ==
    /\ InLoop("quote")
    /\ IF accumulating
       THEN EndOfBody("quote", Flushed, TRUE, "StringLiteral", << >>, "String")
       ELSE EndOfBody("quote", tokens, TRUE, "StringLiteral", accumulatorBuffer, "String")

LexOperator ==
    /\ InLoop("operator")
    /\ IF (glyph = 62 \/ glyph = 60) /\ peek(input, currentIndex) = 61
       THEN EndOfBody("operator", tokens, TRUE, "Op", Append(accumulatorBuffer, glyph),
                      overrideState)
       ELSE IF accumulating /\ glyph = 61
       THEN EndOfBody("operator",
                      flushAccumulator(accumulatingType, Append(accumulatorBuffer, glyph), tokens),
                      FALSE, "None", << >>, overrideState)
       ELSE EndOfBody("operator", Append(tokens, NewTokenString("Op", <<glyph>>)),
                      accumulating, accumulatingType, accumulatorBuffer, overrideState)

\* mutant: a '|' never starts the override
LexBarWithoutOverride ==
    /\ InLoop("bar")
    /\ IF accumulating /\ accumulatingType # "Ident" /\ accumulatingType # "StringLiteral"
       THEN EndOfBody("bar", Flushed, TRUE, "Ident", <<glyph>>, overrideState)
       ELSE EndOfBody("bar", tokens, TRUE, "Ident", Append(accumulatorBuffer, glyph),
                      overrideState)

LexBar ==
    /\ InLoop("bar")
    /\ IF accumulating /\ accumulatingType # "Ident" /\ accumulatingType # "StringLiteral"
       THEN EndOfBody("bar", Flushed, TRUE, "Ident", <<glyph>>, overrideState)
       ELSE IF ~accumulating
       THEN EndOfBody("bar", tokens, TRUE, "Ident", Append(accumulatorBuffer, glyph), "Ident")
       ELSE EndOfBody("bar", tokens, TRUE, "Ident", Append(accumulatorBuffer, glyph),
                      overrideState)

LexDot ==
    /\ InLoop("dot")
    /\ IF accumulating /\ accumulatingType = "Ident"
       THEN EndOfBody("dot", tokens, accumulating, accumulatingType,
                      Append(accumulatorBuffer, glyph), overrideState)
       ELSE IF ~IsSpace(peek(input, currentIndex)) /\ IsNumber(peek(input, currentIndex))
       THEN EndOfBody("dot", tokens, TRUE, "FloatLiteral", Append(accumulatorBuffer, glyph),
                      overrideState)
       ELSE EndOfBody("dot", Append(tokens, NewTokenString("Dot", <<glyph>>)),
                      accumulating, accumulatingType, accumulatorBuffer, overrideState)

LexBool ==
    /\ InLoop("bool")
    /\ IF peek(input, currentIndex) = 116 \/ peek(input, currentIndex) = 102
       THEN EndOfBody("bool", tokens, TRUE, "BoolLiteral", accumulatorBuffer, overrideState)
       ELSE IF accumulating
       THEN EndOfBody("bool",
                      flushAccumulator(accumulatingType,
                                       Append(accumulatorBuffer, IF glyph = 116 THEN 1 ELSE 0),
                                       tokens),
                      FALSE, "None", << >>, overrideState)
       ELSE EndOfBody("bool", Append(tokens, NewTokenString("Char", <<glyph>>)),
                      accumulating, accumulatingType, accumulatorBuffer, overrideState)

LexLetter ==
    /\ InLoop("letter")
    /\ IF accumulating /\ accumulatingType # "Ident"
       THEN EndOfBody("letter", Flushed, TRUE, "Ident", <<glyph>>, overrideState)
       ELSE EndOfBody("letter", tokens, TRUE, "Ident", Append(accumulatorBuffer, glyph),
                      overrideState)

LexSpecialInitial ==
    /\ InLoop("specialInitial")
    /\ IF accumulating /\ accumulatingType = "Ident"
       THEN EndOfBody("specialInitial", tokens, accumulating, accumulatingType,
                      Append(accumulatorBuffer, glyph), overrideState)
       ELSE EndOfBody("specialInitial", Append(tokens, NewTokenString("Char", <<glyph>>)),
                      accumulating, accumulatingType, accumulatorBuffer, overrideState)

LexNumber ==
    /\ InLoop("number")
    /\ IF accumulating /\ accumulatingType = "Ident"
       THEN EndOfBody("number", Flushed, TRUE, "IntLiteral", <<glyph>>, overrideState)
       ELSE EndOfBody("number", tokens, TRUE,
                      IF accumulatingType # "FloatLiteral" THEN "IntLiteral" ELSE accumulatingType,
                      Append(accumulatorBuffer, glyph), overrideState)

LexOther ==
    /\ InLoop("other")
    /\ EndOfBody("other", Append(tokens, NewTokenString("Char", <<glyph>>)),
                 accumulating, accumulatingType, accumulatorBuffer, overrideState)

\* after the loop: flush what is still accumulating, and return tokens
LexReturn ==
    /\ status = "ok"
    /\ currentIndex = Len(input)
    /\ IF accumulating
       THEN /\ tokens' = Flushed
            /\ accumulating' = FALSE
            /\ accumulatingType' = "None"
            /\ accumulatorBuffer' = << >>
       ELSE UNCHANGED <<tokens, accumulating, accumulatingType, accumulatorBuffer>>
    /\ status' = "returned"
    /\ last' = [op |-> "return", at |-> currentIndex, count |-> last.count + 1]
    /\ prev' = last
    /\ UNCHANGED <<input, currentIndex, overrideState, program, Heap, Stack, vmVars, live>>

\* space ( ) " + < > = | . # t f 1 @
Alphabet == {32, 40, 41, 34, 43, 60, 62, 61, 124, 46, 35, 116, 102, 49, 64}

\* inputs in the manner of the lexer's tests
CuratedInputs ==
    {
      <<40, 49, 50, 51, 32, 116, 102, 32, 49, 46, 49, 32, 46, 49, 41>>,   \* (123 tf 1.1 .1)
      <<116, 46, 102, 32, 46, 32, 116, 124, 102, 61, 32, 124, 116, 32, 43, 102, 124>>,   \* t.f . t|f= |t +f|
      <<40, 62, 61, 32, 49, 32, 40, 43, 32, 49, 32, 46, 49, 41, 41>>,   \* (>= 1 (+ 1 .1))
      <<40, 116, 10, 102, 41>>,   \* (t\nf)
      <<51, 46, 49, 52>>,   \* 3.14
      <<34, 102, 116, 32, 102, 116, 34>>,   \* "ft ft"
      <<35, 116, 32, 35, 102, 32, 116>> }   \* #t #f t

Inputs ==
    CuratedInputs \cup UNION {[1..n -> Alphabet] : n \in 0..MaxInputLen}

InitLex ==
    /\ Heap = NewVMHeap
    /\ Stack = NewVMStack
    /\ opcodes = << >>
    /\ cursor = 0
    /\ mnemonicMap = << >>
    /\ console = << >>
    /\ finished = FALSE
    /\ exitCode = FromInt64(0)
    /\ status = "ok"
    /\ returned = FromInt64(0)
    /\ live = {}
    /\ last = NoOp
    /\ prev = NoOp
    /\ idle = 0
    /\ input \in Inputs
    /\ LexLocals

NextLex ==
    \/ LexOverrideIdent
    \/ LexOverrideString
    \/ LexSpace
    \/ LexLParen
    \/ LexRParen
    \/ LexQuote
    \/ LexOperator
    \/ LexBar
    \/ LexDot
    \/ LexBool
    \/ LexLetter
    \/ LexSpecialInitial
    \/ LexNumber
    \/ LexOther
    \/ LexReturn

SpecLex == InitLex /\ [][NextLex]_vars

----------------------------------------------------------------------------
(* LexExp as a function of its argument: the same loop, the locals kept in *)
(* a record, for the properties that compare the tokens of two texts.      *)

Locals(t, acc, type, buffer, override) ==
    [tokens |-> t, accumulating |-> acc, accumulatingType |-> type,
     accumulatorBuffer |-> buffer, overrideState |-> override]

\* mutant: whitespace met while nothing accumulates leaves a Char token
SpaceBranchEmitting(l, c) ==
    IF l.accumulating
    THEN Locals(flushAccumulator(l.accumulatingType, l.accumulatorBuffer, l.tokens),
                FALSE, "None", << >>, l.overrideState)
    ELSE [l EXCEPT !.tokens = Append(l.tokens, NewTokenString("Char", <<c>>))]

\* the branch unicode.IsSpace(glyph)
SpaceBranch(l, c) ==
    IF l.accumulating
    THEN Locals(flushAccumulator(l.accumulatingType, l.accumulatorBuffer, l.tokens),
                FALSE, "None", << >>, l.overrideState)
    ELSE l

\* the branches that end with "continue" before the operator test
DelimiterBranch(l, c) ==
    LET fl == flushAccumulator(l.accumulatingType, l.accumulatorBuffer, l.tokens)
    IN  IF l.overrideState = "Ident"
        THEN IF c = 124
             THEN Locals(flushAccumulator(l.accumulatingType, Append(l.accumulatorBuffer, c),
                                          l.tokens),
                         FALSE, "None", << >>, "None")
             ELSE [l EXCEPT !.accumulatorBuffer = Append(l.accumulatorBuffer, c)]
        ELSE IF l.overrideState = "String"
        THEN IF c = 34
             THEN Locals(fl, FALSE, "None", << >>, "None")
             ELSE [l EXCEPT !.accumulatorBuffer = Append(l.accumulatorBuffer, c)]
        ELSE IF IsSpace(c) THEN SpaceBranch(l, c)
        ELSE IF c = 40 \/ c = 41
        THEN IF l.accumulating
             THEN Locals(Append(fl, NewTokenString(IF c = 40 THEN "LParen" ELSE "RParen", <<c>>)),
                         FALSE, "None", << >>, l.overrideState)
             ELSE [l EXCEPT !.tokens =
                       Append(l.tokens,
                              NewTokenString(IF c = 40 THEN "LParen" ELSE "RParen", <<c>>))]
        ELSE IF l.accumulating
        THEN Locals(fl, TRUE, "StringLiteral", << >>, "String")
        ELSE Locals(l.tokens, TRUE, "StringLiteral", l.accumulatorBuffer, "String")

\* the branches from the operator test to the final else
GlyphBranch(l, c, pk) ==
    LET fl == flushAccumulator(l.accumulatingType, l.accumulatorBuffer, l.tokens)
        added == Append(l.accumulatorBuffer, c)
        char == [l EXCEPT !.tokens = Append(l.tokens, NewTokenString("Char", <<c>>))]
    IN  IF c \in operatorChars /\ l.accumulatingType \in {"Op", "None"}
        THEN IF (c = 62 \/ c = 60) /\ pk = 61
             THEN Locals(l.tokens, TRUE, "Op", added, l.overrideState)
             ELSE IF l.accumulating /\ c = 61
             THEN Locals(flushAccumulator(l.accumulatingType, added, l.tokens),
                         FALSE, "None", << >>, l.overrideState)
             ELSE [l EXCEPT !.tokens = Append(l.tokens, NewTokenString("Op", <<c>>))]
        ELSE IF c = 124
        THEN IF l.accumulating /\ l.accumulatingType # "Ident"
                /\ l.accumulatingType # "StringLiteral"
             THEN Locals(fl, TRUE, "Ident", <<c>>, l.overrideState)
             ELSE Locals(l.tokens, TRUE, "Ident", added,
                         IF ~l.accumulating THEN "Ident" ELSE l.overrideState)
        ELSE IF c = 46
        THEN IF l.accumulating /\ l.accumulatingType = "Ident"
             THEN [l EXCEPT !.accumulatorBuffer = added]
             ELSE IF ~IsSpace(pk) /\ IsNumber(pk)
             THEN Locals(l.tokens, TRUE, "FloatLiteral", added, l.overrideState)
             ELSE [l EXCEPT !.tokens = Append(l.tokens, NewTokenString("Dot", <<c>>))]
        ELSE IF c = 35 \/ (l.accumulating /\ l.accumulatingType = "BoolLiteral")
        THEN IF pk = 116 \/ pk = 102
             THEN Locals(l.tokens, TRUE, "BoolLiteral", l.accumulatorBuffer, l.overrideState)
             ELSE IF l.accumulating
             THEN Locals(flushAccumulator(l.accumulatingType,
                                          Append(l.accumulatorBuffer, IF c = 116 THEN 1 ELSE 0),
                                          l.tokens),
                         FALSE, "None", << >>, l.overrideState)
             ELSE char
        ELSE IF IsLetter(c)
        THEN IF l.accumulating /\ l.accumulatingType # "Ident"
             THEN Locals(fl, TRUE, "Ident", <<c>>, l.overrideState)
             ELSE Locals(l.tokens, TRUE, "Ident", added, l.overrideState)
        ELSE IF c \in specialInitials
        THEN IF l.accumulating /\ l.accumulatingType = "Ident"
             THEN [l EXCEPT !.accumulatorBuffer = added]
             ELSE char
        ELSE IF IsNumber(c)
        THEN IF l.accumulating /\ l.accumulatingType = "Ident"
             THEN Locals(fl, TRUE, "IntLiteral", <<c>>, l.overrideState)
             ELSE Locals(l.tokens, TRUE,
                         IF l.accumulatingType # "FloatLiteral" THEN "IntLiteral"
                         ELSE l.accumulatingType,
                         added, l.overrideState)
        ELSE char

\* one pass of "for index, glyphRune := range input"
LoopBody(l, text, at) ==
    IF \/ l.overrideState # "None"
       \/ IsSpace(text[at + 1])
       \/ text[at + 1] \in {40, 41, 34}
    THEN DelimiterBranch(l, text[at + 1])
    ELSE GlyphBranch(l, text[at + 1], peek(text, at))

RECURSIVE LexFrom(_, _, _)
LexFrom(l, text, at) ==
    IF at >= Len(text)
    THEN IF l.accumulating
         THEN flushAccumulator(l.accumulatingType, l.accumulatorBuffer, l.tokens)
         ELSE l.tokens
    ELSE LexFrom(LoopBody(l, text, at), text, at + 1)

LexExp(text) == LexFrom(Locals(<< >>, FALSE, "None", << >>, "None"), text, 0)

\* the run of the lexer returns what the function gives for its input
LexExpIsTheRun == status = "returned" => tokens = LexExp(input)

\* the function passes through the locals of the run
LexExpFromHere ==
    status = "ok" =>
        LexFrom(Locals(tokens, accumulating, accumulatingType, accumulatorBuffer,
                       overrideState), input, currentIndex) = LexExp(input)

----------------------------------------------------------------------------
(* Properties of LexExp, checked under SpecLex.                            *)

\* the loop is at a glyph and no token is being accumulated
AtGlyphIdle ==
    /\ status = "ok"
    /\ currentIndex < Len(input)
    /\ ~accumulating
    /\ overrideState = "None"

\* the glyph is '<' or '>' and the next character is '='
AtTwoCharOp ==
    /\ glyph \in {60, 62}
    /\ currentIndex + 2 <= Len(input)
    /\ input[currentIndex + 2] = 61

\* C16: when no token is being accumulated, '<' or '>' directly followed by
\* '=' yields exactly one Op token with the payload "<=" or ">=" (nothing at
\* the first character, the token at the '='), and every other operator
\* character of + - / * < = > yields exactly one Op token with that character
\* as payload.
C16_OperatorTokens ==
    /\ [][AtGlyphIdle /\ AtTwoCharOp =>
            /\ tokens' = tokens
            /\ accumulating' /\ accumulatingType' = "Op"
            /\ accumulatorBuffer' = <<glyph>>]_vars
    /\ [](status = "ok" /\ accumulating /\ accumulatingType = "Op" =>
            /\ accumulatorBuffer \in {<<60>>, <<62>>}
            /\ currentIndex < Len(input)
            /\ glyph = 61)
    /\ [][status = "ok" /\ accumulating /\ accumulatingType = "Op" =>
            /\ tokens' = Append(tokens, [Type |-> "Op",
                                         Value |-> [bytes |-> accumulatorBuffer \o <<61>>]])
            /\ ~accumulating' /\ accumulatorBuffer' = << >>]_vars
    /\ [][AtGlyphIdle /\ glyph \in operatorChars /\ ~AtTwoCharOp =>
            /\ tokens' = Append(tokens, [Type |-> "Op", Value |-> [bytes |-> <<glyph>>]])
            /\ ~accumulating' /\ accumulatorBuffer' = << >>]_vars

\* ">=1" has been lexed into the operator ">=" and the integer 1
C16_Witness ==
    /\ input = <<62, 61, 49>>
    /\ status = "returned"
    /\ tokens = <<[Type |-> "Op", Value |-> [bytes |-> <<62, 61>>]],
                  [Type |-> "IntLiteral", Value |-> [bytes |-> PutVarint(<<1>>)]]>>

\* the characters a number is written with
NumberChar(c) == IsNumber(c) \/ c = 46

\* the maximal runs of digits and '.' of text that hold a digit, in order;
\* run is the run being read
RECURSIVE NumberRuns(_, _)
NumberRuns(text, run) ==
    IF text = << >>
    THEN IF \E i \in 1..Len(run) : IsNumber(run[i]) THEN <<run>> ELSE << >>
    ELSE IF NumberChar(Head(text))
    THEN NumberRuns(Tail(text), Append(run, Head(text)))
    ELSE (IF \E i \in 1..Len(run) : IsNumber(run[i]) THEN <<run>> ELSE << >>)
             \o NumberRuns(Tail(text), << >>)

\* digits with at most one '.', and the '.' directly followed by a digit
NumberLiteral(run) ==
    /\ Cardinality({i \in 1..Len(run) : run[i] = 46}) <= 1
    /\ run[Len(run)] # 46

\* an input whose digits all belong to number literals: no identifier, no
\* string and no boolean in it
NumbersOnly(text) ==
    /\ \A i \in 1..Len(text) :
          ~IsLetter(text[i]) /\ text[i] \notin {124, 34, 35}
    /\ \A k \in 1..Len(NumberRuns(text, << >>)) : NumberLiteral(NumberRuns(text, << >>)[k])

\* the token C17 has for a literal
NumberToken(run) ==
    LET type == IF \E i \in 1..Len(run) : run[i] = 46 THEN "FloatLiteral" ELSE "IntLiteral"
    IN  [Type |-> type, Value |-> bufferStringToNum(type, run)]

IsNumberToken(t) == t.Type \in {"IntLiteral", "FloatLiteral"}

\* C17: every maximal run of decimal digits outside identifiers, with at
\* most one '.' that a digit follows, is emitted as exactly one IntLiteral
\* (no '.') or FloatLiteral (with '.') token whose payload is the binary
\* encoding of its value, not its text, also when it ends the input.
C17_OneTokenPerNumber ==
    status = "returned" /\ NumbersOnly(input) =>
        /\ SelectSeq(tokens, IsNumberToken)
             = [k \in 1..Len(NumberRuns(input, << >>)) |-> NumberToken(NumberRuns(input, << >>)[k])]
        /\ \A k \in 1..Len(tokens) :
              IsNumberToken(tokens[k]) =>
                  \A r \in 1..Len(NumberRuns(input, << >>)) :
                      tokens[k].Value # [bytes |-> NumberRuns(input, << >>)[r]]

\* a character that ends the accumulation of a number
EndsNumber(c) == IsSpace(c) \/ c \in {40, 41}

\* every number of text is followed by white space, a parenthesis or the
\* end of the input
NumbersDelimited(text) ==
    \A i \in 1..(Len(text) - 1) :
        NumberChar(text[i]) /\ ~NumberChar(text[i + 1]) => EndsNumber(text[i + 1])

\* the part of C17 the code keeps: numbers that white space, a parenthesis
\* or the end of the input follows
C17_OneTokenPerDelimitedNumber ==
    status = "returned" /\ NumbersOnly(input) /\ NumbersDelimited(input) =>
        SelectSeq(tokens, IsNumberToken)
            = [k \in 1..Len(NumberRuns(input, << >>)) |-> NumberToken(NumberRuns(input, << >>)[k])]

\* "1+1" has been lexed into the character '+' and the integer 11
C17_TwoNumbersMerged ==
    /\ input = <<49, 43, 49>>
    /\ status = "returned"
    /\ tokens = <<[Type |-> "Char", Value |-> [bytes |-> <<43>>]],
                  [Type |-> "IntLiteral", Value |-> [bytes |-> PutVarint(<<11>>)]]>>

\* "3.14" has been lexed into one FloatLiteral at the end of the input
C17_FloatAtEnd ==
    /\ input = <<51, 46, 49, 52>>
    /\ status = "returned"
    /\ tokens = <<[Type |-> "FloatLiteral",
                   Value |-> [float64 |-> [num |-> 314, scale |-> 2], pad |-> 2]]>>

\* the positions of text where a '#' is directly followed by 't' or 'f'
BoolPositions(text) ==
    {i \in 1..(Len(text) - 1) : text[i] = 35 /\ text[i + 1] \in {116, 102}}

\* the k-th smallest element of the set S of numbers
RECURSIVE Nth(_, _)
Nth(S, k) == IF k = 1 THEN Min(S) ELSE Nth(S \ {Min(S)}, k - 1)

\* the token C18 has for the '#t' or '#f' at position i
BoolToken(text, i) ==
    [Type |-> "BoolLiteral", Value |-> [bytes |-> <<IF text[i + 1] = 116 THEN 1 ELSE 0>>]]

IsBoolToken(t) == t.Type = "BoolLiteral"

\* no |...| identifier and no string in text
NoOverride(text) == \A i \in 1..Len(text) : text[i] \notin {124, 34}

\* every '#' of text is directly followed by 't' or 'f'
HashesAreBools(text) ==
    \A i \in 1..Len(text) : text[i] = 35 => i \in BoolPositions(text)

\* C18: for every '#' followed by 't' or 'f' outside |...| identifiers and
\* strings, whatever is pending and whatever follows, the lexer emits
\* exactly one BoolLiteral token whose payload is the single byte 0x01 for
\* '#t' and 0x00 for '#f', and the '#' appears in no other token.
C18_OneBoolPerHashLetter ==
    status = "returned" /\ NoOverride(input) /\ HashesAreBools(input) =>
        /\ SelectSeq(tokens, IsBoolToken)
             = [k \in 1..Cardinality(BoolPositions(input)) |->
                    BoolToken(input, Nth(BoolPositions(input), k))]
        /\ \A k \in 1..Len(tokens) :
              tokens[k].Type \notin {"BoolLiteral", "IntLiteral", "FloatLiteral"} =>
                  \A j \in 1..Len(tokens[k].Value.bytes) : tokens[k].Value.bytes[j] # 35

\* every '#t' and '#f' of text starts the input or follows white space or a
\* parenthesis, and is not followed by 't' or 'f'
BoolsDelimited(text) ==
    \A i \in BoolPositions(text) :
        /\ i = 1 \/ IsSpace(text[i - 1]) \/ text[i - 1] \in {40, 41}
        /\ i + 2 <= Len(text) => text[i + 2] \notin {116, 102}

\* the part of C18 the code keeps: a '#t' or '#f' met with nothing pending
\* and not followed by 't' or 'f'
C18_OneBoolPerDelimitedHashLetter ==
    status = "returned" /\ NoOverride(input) /\ HashesAreBools(input)
                        /\ BoolsDelimited(input) =>
        SelectSeq(tokens, IsBoolToken)
            = [k \in 1..Cardinality(BoolPositions(input)) |->
                   BoolToken(input, Nth(BoolPositions(input), k))]

\* "#tf" has been lexed into the one token false
C18_TrueReadAsFalse ==
    /\ input = <<35, 116, 102>>
    /\ status = "returned"
    /\ tokens = <<[Type |-> "BoolLiteral", Value |-> [bytes |-> <<0>>]]>>

\* "1#t" has been lexed into one BoolLiteral that holds the digit too
C18_PendingNumberSwallowed ==
    /\ input = <<49, 35, 116>>
    /\ status = "returned"
    /\ tokens = <<[Type |-> "BoolLiteral", Value |-> [bytes |-> <<49, 1>>]]>>

\* the character at position start is the opening one, no further one has
\* been read since, and the accumulator holds kept and then every character
\* read after the opening one
AccumulatedSince(start, opening, kept) ==
    /\ input[start] = opening
    /\ \A j \in (start + 1)..currentIndex : input[j] # opening
    /\ accumulatorBuffer = kept \o SubSeq(input, start + 1, currentIndex)

\* C19: a '|' met while nothing is accumulating starts an identifier that
\* absorbs every following character up to and including the next '|' and
\* is emitted as exactly one Ident token whose payload keeps both bars; the
\* absorbed characters produce no token of their own.
C19_BarIdentifier ==
    /\ [][AtGlyphIdle /\ glyph = 124 =>
            /\ tokens' = tokens
            /\ overrideState' = "Ident"]_vars
    /\ [](status = "ok" /\ overrideState = "Ident" =>
            /\ accumulating /\ accumulatingType = "Ident"
            /\ \E start \in 1..currentIndex : AccumulatedSince(start, 124, <<124>>))
    /\ [][status = "ok" /\ overrideState = "Ident" /\ currentIndex < Len(input) =>
            IF glyph = 124
            THEN /\ tokens' = Append(tokens,
                                     [Type |-> "Ident",
                                      Value |-> [bytes |-> accumulatorBuffer \o <<124>>]])
                 /\ overrideState' = "None"
                 /\ ~accumulating'
            ELSE /\ tokens' = tokens
                 /\ overrideState' = "Ident"]_vars

\* "|(|" has been lexed into the one identifier |(|
C19_Witness ==
    /\ input = <<124, 40, 124>>
    /\ status = "returned"
    /\ tokens = <<[Type |-> "Ident", Value |-> [bytes |-> <<124, 40, 124>>]]>>

\* C20: a double quote met outside the override states flushes the pending
\* token and starts a string; every character up to the next double quote
\* is collected verbatim and exactly one StringLiteral token is emitted,
\* whose payload is the text between the quotes without the quotes (empty
\* for ""); the characters of the string produce no other token.
C20_StringLiteral ==
    /\ [][status = "ok" /\ currentIndex < Len(input) /\ overrideState = "None" /\ glyph = 34 =>
            /\ tokens' = IF accumulating
                         THEN flushAccumulator(accumulatingType, accumulatorBuffer, tokens)
                         ELSE tokens
            /\ overrideState' = "String"]_vars
    /\ [](status = "ok" /\ overrideState = "String" =>
            /\ accumulating /\ accumulatingType = "StringLiteral"
            /\ \E start \in 1..currentIndex : AccumulatedSince(start, 34, << >>))
    /\ [][status = "ok" /\ overrideState = "String" /\ currentIndex < Len(input) =>
            IF glyph = 34
            THEN /\ tokens' = Append(tokens,
                                     [Type |-> "StringLiteral",
                                      Value |-> [bytes |-> accumulatorBuffer]])
                 /\ overrideState' = "None"
                 /\ ~accumulating'
            ELSE /\ tokens' = tokens
                 /\ overrideState' = "String"]_vars

\* 1"" has been lexed into the integer 1 and the empty string
C20_Witness ==
    /\ input = <<49, 34, 34>>
    /\ status = "returned"
    /\ tokens = <<[Type |-> "IntLiteral", Value |-> [bytes |-> PutVarint(<<1>>)]],
                  [Type |-> "StringLiteral", Value |-> [bytes |-> << >>]]>>


\* space, tab, newline
Whitespace == {32, 9, 10}

InsertAt(text, at, c) == SubSeq(text, 1, at) \o <<c>> \o SubSeq(text, at + 1, Len(text))

\* the place between text[at] and text[at + 1] touches whitespace or a parenthesis
BesideSeparator(text, at) ==
    \/ at >= 1 /\ (IsSpace(text[at]) \/ text[at] \in {40, 41})
    \/ at < Len(text) /\ (IsSpace(text[at + 1]) \/ text[at + 1] \in {40, 41})

\* the lexer stands outside a |...| identifier and a string, at a place where
\* a whitespace character lengthens a separator or sits next to a parenthesis
AtSeparator ==
    /\ status = "ok"
    /\ overrideState = "None"
    /\ BesideSeparator(input, currentIndex)

\* C21: outside a |...| identifier and a string, one more whitespace
\* character (space, tab or newline) in a whitespace separator or next to a
\* parenthesis leaves the token sequence of the text, types and payloads,
\* as it was.
C21_WhitespaceOnlySeparates ==
    AtSeparator =>
        \A w \in Whitespace : LexExp(InsertAt(input, currentIndex, w)) = LexExp(input)

\* "(t\nf)" read up to the newline: the place is in a separator, and the text
\* with one more space there has the same four tokens
C21_Witness ==
    /\ AtSeparator
    /\ input = <<40, 116, 10, 102, 41>>
    /\ currentIndex = 2
    /\ accumulating
    /\ Len(LexExp(InsertAt(input, currentIndex, 32))) = 4

----------------------------------------------------------------------------
(* The parser (src/parser.go).  A node is a record with the fields of all  *)
(* node structs, those a struct does not have at their zero value; nil is  *)
(* the node of type "nil".  An int64 is [neg, abs], abs in base 128.       *)

Zero == [neg |-> FALSE, abs |-> << >>]

ZeroFloat == [num |-> 0, scale |-> 0]

Node(type, subNodes, name, args, int, float, string, bool) ==
    [type |-> type, subNodes |-> subNodes, Name |-> name, Args |-> args,
     Int |-> int, Float |-> float, String |-> string, Bool |-> bool]

Nil == Node("nil", << >>, << >>, << >>, Zero, ZeroFloat, << >>, FALSE)

\* NewAddExp ... NewEqExp, NewIfExp: a node of the type with its sub-nodes
NewExp(type, subNodes) == Node(type, subNodes, << >>, << >>, Zero, ZeroFloat, << >>, FALSE)

NewDefExp(name, exp) == Node("DefNode", <<exp>>, name, << >>, Zero, ZeroFloat, << >>, FALSE)

NewLambdaExp(args, exp) == Node("LambdaNode", <<exp>>, << >>, args, Zero, ZeroFloat, << >>, FALSE)

NewIdentExp(name) == Node("IdentNode", << >>, name, << >>, Zero, ZeroFloat, << >>, FALSE)

NewIntLiteral(value) == Node("IntNode", << >>, << >>, << >>, value, ZeroFloat, << >>, FALSE)

NewFloatLiteral(value) == Node("FloatNode", << >>, << >>, << >>, Zero, value, << >>, FALSE)

NewStringLiteral(value) == Node("StringNode", << >>, << >>, << >>, Zero, ZeroFloat, value, FALSE)

NewBoolLiteral(value) == Node("BoolNode", << >>, << >>, << >>, Zero, ZeroFloat, << >>, value)

\* x without its high zeros
RECURSIVE Strip(_)
Strip(x) ==
    IF x = << >> \/ x[Len(x)] # 0 THEN x ELSE Strip(SubSeq(x, 1, Len(x) - 1))

\* the bytes of buf that binary.Uvarint reads: up to the first byte below 0x80
VarintLength(buf) ==
    IF \E i \in 1..Len(buf) : buf[i] < 128
    THEN CHOOSE i \in 1..Len(buf) : buf[i] < 128 /\ \A j \in 1..(i - 1) : buf[j] >= 128
    ELSE 0

\* binary.Uvarint, the count dropped: 0 for a buffer without a last byte
\* and for a value that overflows 64 bits
ReadUvarint(buf) ==
    IF \/ VarintLength(buf) = 0
       \/ VarintLength(buf) > 10
       \/ VarintLength(buf) = 10 /\ buf[10] > 1
    THEN << >>
    ELSE Strip([i \in 1..VarintLength(buf) |-> buf[i] % 128])

\* ux >> 1
ShiftRight(ux) ==
    Strip([i \in 1..Len(ux) |->
              (ux[i] \div 2) + (IF i < Len(ux) THEN (ux[i + 1] % 2) * 64 ELSE 0)])

\* binary.Varint: x = int64(ux >> 1), and ^x when ux is odd
Varint(buf) ==
    IF ReadUvarint(buf) # << >> /\ ReadUvarint(buf)[1] % 2 = 1
    THEN [neg |-> TRUE, abs |-> MulAdd(ShiftRight(ReadUvarint(buf)), 1, 1)]
    ELSE [neg |-> FALSE, abs |-> ShiftRight(ReadUvarint(buf))]

\* mutant: the varint is read without undoing the zig-zag code
bufferToIntUnsigned(buffer) == [neg |-> FALSE, abs |-> ReadUvarint(buffer.bytes)]

bufferToInt(buffer) == Varint(buffer.bytes)

\* Float64frombits of the 8 bytes PutUint64 wrote
bufferToFloat(buffer) == buffer.float64

\* the result of a call: the node, the error (NoError for nil), *currentIndex
\* afterwards, and whether the call panicked
NoError == [msg |-> "nil", value |-> [bytes |-> << >>]]

Result(node, err, index) == [node |-> node, err |-> err, index |-> index, panic |-> FALSE]

Panic(index) == [node |-> Nil, err |-> NoError, index |-> index, panic |-> TRUE]

\* expect: the error for the token at index at (0-based), NoError if it has
\* the expected type
expect(toks, expectedType, at) ==
    IF Len(toks) - 1 < at THEN [msg |-> "Unexpected EOF", value |-> [bytes |-> << >>]]
    ELSE IF toks[at + 1].Type # expectedType
    THEN [msg |-> "Unexpected token ", value |-> toks[at + 1].Value]
    ELSE NoError

\* closeExp: the error, and the index afterwards
closeExp(toks, at) ==
    IF expect(toks, "RParen", at) # NoError
    THEN [err |-> expect(toks, "RParen", at), index |-> at]
    ELSE [err |-> NoError, index |-> at + 1]

\* parseArgs: accept indexes tokens without a bound check, so it panics at
\* the end of the tokens
RECURSIVE parseArgs(_, _, _)
parseArgs(toks, at, funcArgs) ==
    IF at >= Len(toks) THEN [args |-> << >>, index |-> at, panic |-> TRUE]
    ELSE IF toks[at + 1].Type = "Ident"
    THEN parseArgs(toks, at + 1, Append(funcArgs, toks[at + 1].Value.bytes))
    ELSE IF closeExp(toks, at).err # NoError
    THEN [args |-> << >>, index |-> at, panic |-> FALSE]
    ELSE [args |-> funcArgs, index |-> at + 1, panic |-> FALSE]

\* the switch on opToken.Value.String(): expNode stays nil for another text
OperatorNode(text) ==
    IF text = <<43>> THEN "AddNode"
    ELSE IF text = <<45>> THEN "SubNode"
    ELSE IF text = <<42>> THEN "MulNode"
    ELSE IF text = <<47>> THEN "DivNode"
    ELSE IF text = <<60>> THEN "LtNode"
    ELSE IF text = <<60, 61>> THEN "LteNode"
    ELSE IF text = <<62>> THEN "GtNode"
    ELSE IF text = <<62, 61>> THEN "GteNode"
    ELSE IF text = <<61>> THEN "EqNode"
    ELSE "nil"

\* mutant: the operands are attached right before left
OperatorExpSwapped(text, lhs, rhs) ==
    IF OperatorNode(text) = "nil" THEN Nil ELSE NewExp(OperatorNode(text), <<rhs, lhs>>)

OperatorExp(text, lhs, rhs) ==
    IF OperatorNode(text) = "nil" THEN Nil ELSE NewExp(OperatorNode(text), <<lhs, rhs>>)

\* the end of an expression: closeExp, then the node or the error
Closed(toks, node, at) ==
    IF closeExp(toks, at).err # NoError
    THEN Result(Nil, closeExp(toks, at).err, at)
    ELSE Result(node, NoError, at + 1)

IfWord == <<105, 102>>
DefineWord == <<100, 101, 102, 105, 110, 101>>
LambdaWord == <<108, 97, 109, 98, 100, 97>>

RECURSIVE parseExpression(_, _)

\* the branch of an operator: at is the index after the Op token
parseOperator(toks, at) ==
    LET lhs == parseExpression(toks, at)
        rhs == parseExpression(toks, lhs.index)
    IN  IF lhs.panic THEN lhs
        ELSE IF lhs.err # NoError THEN Result(Nil, lhs.err, lhs.index)
        ELSE IF rhs.panic THEN rhs
        ELSE IF rhs.err # NoError THEN Result(Nil, rhs.err, rhs.index)
        ELSE Closed(toks, OperatorExp(toks[at].Value.bytes, lhs.node, rhs.node), rhs.index)

\* case "if": the errors of the three calls are dropped
parseIf(toks, at) ==
    LET cond == parseExpression(toks, at)
        ifTrue == parseExpression(toks, cond.index)
        ifFalse == parseExpression(toks, ifTrue.index)
    IN  IF cond.panic THEN cond
        ELSE IF ifTrue.panic THEN ifTrue
        ELSE IF ifFalse.panic THEN ifFalse
        ELSE Closed(toks, NewExp("IfNode", <<cond.node, ifTrue.node, ifFalse.node>>),
                    ifFalse.index)

\* mutant: the function-style definition drops its parameter list
parseDefineFunctionWithoutArgs(toks, at) ==
    LET funcArgs == parseArgs(toks, at + 1, << >>)
        lambdaExp == parseExpression(toks, funcArgs.index)
    IN  IF expect(toks, "Ident", at) # NoError THEN Result(Nil, expect(toks, "Ident", at), at)
        ELSE IF funcArgs.panic THEN Panic(funcArgs.index)
        ELSE IF lambdaExp.panic THEN lambdaExp
        ELSE Closed(toks,
                    NewDefExp(toks[at + 1].Value.bytes, NewLambdaExp(<< >>, lambdaExp.node)),
                    lambdaExp.index)

\* case "define" with a parenthesis: at is the index after it
parseDefineFunction(toks, at) ==
    LET funcArgs == parseArgs(toks, at + 1, << >>)
        lambdaExp == parseExpression(toks, funcArgs.index)
    IN  IF expect(toks, "Ident", at) # NoError THEN Result(Nil, expect(toks, "Ident", at), at)
        ELSE IF funcArgs.panic THEN Panic(funcArgs.index)
        ELSE IF lambdaExp.panic THEN lambdaExp
        ELSE Closed(toks,
                    NewDefExp(toks[at + 1].Value.bytes, NewLambdaExp(funcArgs.args, lambdaExp.node)),
                    lambdaExp.index)

\* case "define" without: at is the index of the name
parseDefineValue(toks, at) ==
    LET newExp == parseExpression(toks, at + 1)
    IN  IF expect(toks, "Ident", at) # NoError THEN Result(Nil, expect(toks, "Ident", at), at)
        ELSE IF newExp.panic THEN newExp
        ELSE Closed(toks, NewDefExp(toks[at + 1].Value.bytes, newExp.node), newExp.index)

\* case "lambda": at is the index after the word
parseLambda(toks, at) ==
    LET lambdaArgs == parseArgs(toks, at + 1, << >>)
        lambdaExp == parseExpression(toks, lambdaArgs.index)
    IN  IF expect(toks, "LParen", at) # NoError
        THEN Result(Nil, expect(toks, "LParen", at), at)
        ELSE IF lambdaArgs.panic THEN Panic(lambdaArgs.index)
        ELSE IF lambdaExp.panic THEN lambdaExp
        ELSE Closed(toks, NewLambdaExp(lambdaArgs.args, lambdaExp.node), lambdaExp.index)

\* after "(": at is the index after the parenthesis
parseForm(toks, at) ==
    IF at >= Len(toks) THEN Panic(at)
    ELSE IF toks[at + 1].Type = "Op" THEN parseOperator(toks, at + 1)
    ELSE IF toks[at + 1].Type = "Ident"
    THEN IF toks[at + 1].Value.bytes = IfWord THEN parseIf(toks, at + 1)
         ELSE IF toks[at + 1].Value.bytes = DefineWord
         THEN IF at + 1 >= Len(toks) THEN Panic(at + 1)
              ELSE IF toks[at + 2].Type = "LParen" THEN parseDefineFunction(toks, at + 2)
              ELSE parseDefineValue(toks, at + 1)
         ELSE IF toks[at + 1].Value.bytes = LambdaWord THEN parseLambda(toks, at + 1)
         ELSE Result(Nil, [msg |-> "Unexpected token", value |-> [bytes |-> << >>]], at + 1)
    ELSE Result(Nil, [msg |-> "Unexpected token", value |-> [bytes |-> << >>]], at)

parseExpression(toks, at) ==
    IF at >= Len(toks) THEN Panic(at)
    ELSE IF toks[at + 1].Type = "IntLiteral"
    THEN Result(NewIntLiteral(bufferToInt(toks[at + 1].Value)), NoError, at + 1)
    ELSE IF toks[at + 1].Type = "FloatLiteral"
    THEN Result(NewFloatLiteral(bufferToFloat(toks[at + 1].Value)), NoError, at + 1)
    ELSE IF toks[at + 1].Type = "StringLiteral"
    THEN Result(NewStringLiteral(toks[at + 1].Value.bytes), NoError, at + 1)
    ELSE IF toks[at + 1].Type = "BoolLiteral"
    THEN IF toks[at + 1].Value.bytes = << >> THEN Panic(at + 1)
         ELSE Result(NewBoolLiteral(toks[at + 1].Value.bytes[1] = 1), NoError, at + 1)
    ELSE IF toks[at + 1].Type = "Ident"
    THEN Result(NewIdentExp(toks[at + 1].Value.bytes), NoError, at + 1)
    ELSE IF expect(toks, "LParen", at) # NoError
    THEN Result(Nil, expect(toks, "LParen", at), at)
    ELSE parseForm(toks, at + 1)

\* the decimal digit x mod 10 of the digits from the i-th up
RECURSIVE RemAt(_, _)
RemAt(x, i) == IF i > Len(x) THEN 0 ELSE (RemAt(x, i + 1) * 128 + x[i]) % 10

\* x / 10
DivTen(x) == Strip([i \in 1..Len(x) |-> (RemAt(x, i + 1) * 128 + x[i]) \div 10])

RECURSIVE DecimalDigits(_)
DecimalDigits(x) ==
    IF x = << >> THEN << >> ELSE DecimalDigits(DivTen(x)) \o <<48 + RemAt(x, 1)>>

\* strconv.FormatIntLiteral(value, 10)
FormatIntLiteral(value) ==
    IF value.abs = << >> THEN <<48>>
    ELSE (IF value.neg THEN <<45>> ELSE << >>) \o DecimalDigits(value.abs)

\* strconv.FormatFloatLiteral(value, 'g', -1, 64) of num / 10^scale, for the values
\* written without an exponent (1e-4 <= value < 1e21)
FormatFloatLiteral(value) ==
    LET digits == Digits(value.num)
    IN  IF value.scale = 0 THEN digits
        ELSE IF Len(digits) > value.scale
        THEN SubSeq(digits, 1, Len(digits) - value.scale) \o <<46>>
             \o SubSeq(digits, Len(digits) - value.scale + 1, Len(digits))
        ELSE <<48, 46>> \o [i \in 1..(value.scale - Len(digits)) |-> 48] \o digits

\* fmt.Sprintf("%v", args) without the brackets: the names, a space between
RECURSIVE Joined(_)
Joined(args) ==
    IF args = << >> THEN << >>
    ELSE IF Len(args) = 1 THEN args[1]
    ELSE args[1] \o <<32>> \o Joined(Tail(args))

\* strings.Trim(s, "[]"): every leading and trailing '[' and ']' goes
RECURSIVE TrimBrackets(_)
TrimBrackets(s) ==
    IF s = << >> THEN s
    ELSE IF s[1] \in {91, 93} THEN TrimBrackets(Tail(s))
    ELSE IF s[Len(s)] \in {91, 93} THEN TrimBrackets(SubSeq(s, 1, Len(s) - 1))
    ELSE s

ExpName(type) ==
    CASE type = "AddNode" -> <<65, 100, 100, 69, 120, 112, 40>> [] type = "SubNode" -> <<83, 117, 98, 69, 120, 112, 40>> [] type = "MulNode" -> <<77, 117, 108, 69, 120, 112, 40>>
      [] type = "DivNode" -> <<68, 105, 118, 69, 120, 112, 40>> [] type = "LtNode" -> <<76, 116, 69, 120, 112, 40>> [] type = "LteNode" -> <<76, 116, 101, 69, 120, 112, 40>>
      [] type = "GtNode" -> <<71, 116, 69, 120, 112, 40>> [] type = "GteNode" -> <<71, 116, 101, 69, 120, 112, 40>> [] type = "EqNode" -> <<69, 113, 69, 120, 112, 40>>
      [] type = "IfNode" -> <<73, 102, 69, 120, 112, 40>>

\* DebugString of a tree without nil (a nil sub-node makes the call panic)
RECURSIVE DebugString(_)
DebugStrings(subNodes) ==
    IF Len(subNodes) = 2
    THEN DebugString(subNodes[1]) \o <<44, 32>> \o DebugString(subNodes[2])
    ELSE DebugString(subNodes[1]) \o <<44, 32>> \o DebugString(subNodes[2]) \o <<44, 32>>
         \o DebugString(subNodes[3])

DebugString(node) ==
    IF node.type = "IdentNode" THEN node.Name
    ELSE IF node.type = "IntNode" THEN FormatIntLiteral(node.Int)
    ELSE IF node.type = "FloatNode" THEN FormatFloatLiteral(node.Float)
    ELSE IF node.type = "StringNode" THEN <<34>> \o node.String \o <<34>>
    ELSE IF node.type = "BoolNode" THEN (IF node.Bool THEN <<116, 114, 117, 101>> ELSE <<102, 97, 108, 115, 101>>)
    ELSE IF node.type = "DefNode"
    THEN <<68, 101, 102, 69, 120, 112, 40>> \o node.Name \o <<44, 32>> \o DebugString(node.subNodes[1]) \o <<41>>
    ELSE IF node.type = "LambdaNode"
    THEN <<76, 97, 109, 98, 100, 97, 69, 120, 112, 40>> \o TrimBrackets(<<91>> \o Joined(node.Args) \o <<93>>) \o <<44, 32>>
         \o DebugString(node.subNodes[1]) \o <<41>>
    ELSE ExpName(node.type) \o DebugStrings(node.subNodes) \o <<41>>

\* ParseTokens as a function of its argument: the program's sub-nodes, the
\* index at the end and how the call ends.  A call of parseExpression that
\* fails without moving the index is repeated for ever.
RECURSIVE ParseFrom(_, _, _)
ParseFrom(toks, at, nodes) ==
    IF Len(toks) - 1 < at THEN [nodes |-> nodes, index |-> at, status |-> "returned"]
    ELSE IF parseExpression(toks, at).panic
    THEN [nodes |-> nodes, index |-> parseExpression(toks, at).index, status |-> "panic"]
    ELSE IF parseExpression(toks, at).index = at
    THEN [nodes |-> Append(nodes, Nil), index |-> at, status |-> "hang"]
    ELSE ParseFrom(toks, parseExpression(toks, at).index,
                   Append(nodes, parseExpression(toks, at).node))

ParseTokens(toks) == ParseFrom(toks, 0, << >>)

\* mutant: the node is put before the sub-nodes the program has
ParseLoopNewestFirst ==
    /\ status = "ok"
    /\ Len(tokens) - 1 >= currentIndex
    /\ ~parseExpression(tokens, currentIndex).panic
    /\ parseExpression(tokens, currentIndex).index # currentIndex
    /\ program' = <<parseExpression(tokens, currentIndex).node>> \o program
    /\ currentIndex' = parseExpression(tokens, currentIndex).index
    /\ last' = [op |-> "parse", at |-> currentIndex, count |-> last.count + 1]
    /\ prev' = last
    /\ UNCHANGED <<input, tokens, accumulating, accumulatingType, accumulatorBuffer,
                   overrideState, Heap, Stack, vmVars, status, live>>

\* one pass of the loop of ParseTokens
ParseLoop ==
    /\ status = "ok"
    /\ Len(tokens) - 1 >= currentIndex
    /\ ~parseExpression(tokens, currentIndex).panic
    /\ parseExpression(tokens, currentIndex).index # currentIndex
    /\ program' = Append(program, parseExpression(tokens, currentIndex).node)
    /\ currentIndex' = parseExpression(tokens, currentIndex).index
    /\ last' = [op |-> "parse", at |-> currentIndex, count |-> last.count + 1]
    /\ prev' = last
    /\ UNCHANGED <<input, tokens, accumulating, accumulatingType, accumulatorBuffer,
                   overrideState, Heap, Stack, vmVars, status, live>>

\* parseExpression indexes tokens behind their end
ParsePanic ==
    /\ status = "ok"
    /\ Len(tokens) - 1 >= currentIndex
    /\ parseExpression(tokens, currentIndex).panic
    /\ status' = "panic"
    /\ last' = [op |-> "parse", at |-> currentIndex, count |-> last.count + 1]
    /\ prev' = last
    /\ UNCHANGED <<input, currentIndex, tokens, accumulating, accumulatingType,
                   accumulatorBuffer, overrideState, program, Heap, Stack, vmVars, live>>

\* parseExpression fails at the index it was called at: the loop appends
\* nil and calls it again with the same arguments, without end
ParseHang ==
    /\ status = "ok"
    /\ Len(tokens) - 1 >= currentIndex
    /\ ~parseExpression(tokens, currentIndex).panic
    /\ parseExpression(tokens, currentIndex).index = currentIndex
    /\ program' = Append(program, Nil)
    /\ status' = "hang"
    /\ last' = [op |-> "parse", at |-> currentIndex, count |-> last.count + 1]
    /\ prev' = last
    /\ UNCHANGED <<input, currentIndex, tokens, accumulating, accumulatingType,
                   accumulatorBuffer, overrideState, Heap, Stack, vmVars, live>>

ParseReturn ==
    /\ status = "ok"
    /\ Len(tokens) - 1 < currentIndex
    /\ status' = "returned"
    /\ last' = [op |-> "return", at |-> currentIndex, count |-> last.count + 1]
    /\ prev' = last
    /\ UNCHANGED <<input, currentIndex, tokens, accumulating, accumulatingType,
                   accumulatorBuffer, overrideState, program, Heap, Stack, vmVars, live>>

MaxTokens == 5          \* tokens of a generated token sequence of SpecParse
MaxDigits == 3          \* digits of a generated number of SpecParse
MaxParams == 2          \* parameters of a generated definition of SpecParse

LParenToken == NewTokenString("LParen", <<40>>)
RParenToken == NewTokenString("RParen", <<41>>)
Word(text) == NewTokenRaw("Ident", [bytes |-> text])

\* ( ) - 1 x
TokenAlphabet ==
    {LParenToken, RParenToken, NewTokenString("Op", <<45>>),
     NewTokenRaw("IntLiteral", [bytes |-> PutVarint(<<1>>)]), Word(<<120>>)}

\* the texts of the parser's tests, and some that are cut short
CuratedTexts ==
    {
      <<40, 43, 32, 53, 32, 51, 41>>,   \* (+ 5 3)
      <<40, 42, 32, 40, 45, 32, 56, 32, 40, 43, 32, 53, 32, 54, 41, 41, 32, 53, 50, 41>>,   \* (* (- 8 (+ 5 6)) 52)
      <<40, 43, 32, 51, 32, 52, 41, 10, 40, 43, 32, 53, 32, 54, 41>>,   \* (+ 3 4)\n(+ 5 6)
      <<40, 47, 32, 50, 46, 55, 49, 56, 32, 51, 46, 49, 52, 53, 41>>,   \* (/ 2.718 3.145)
      <<40, 60, 61, 32, 40, 60, 32, 55, 32, 49, 41, 32, 49, 48, 41>>,   \* (<= (< 7 1) 10)
      <<40, 62, 61, 32, 40, 62, 32, 54, 32, 50, 41, 32, 57, 41>>,   \* (>= (> 6 2) 9)
      <<40, 61, 32, 40, 60, 32, 51, 32, 51, 41, 32, 40, 62, 61, 32, 49, 32, 57, 41, 41>>,   \* (= (< 3 3) (>= 1 9))
      <<40, 43, 32, 34, 108, 97, 32, 108, 105, 32, 34, 32, 34, 108, 117, 32, 108, 101, 32, 108, 111, 34, 41>>,   \* (+ "la li " "lu le lo")
      <<40, 61, 32, 35, 116, 32, 35, 102, 41>>,   \* (= #t #f)
      <<40, 105, 102, 32, 40, 62, 32, 54, 32, 53, 41, 32, 34, 116, 114, 117, 101, 34, 32, 34, 102, 97, 108, 115, 101, 34, 41>>,   \* (if (> 6 5) "true" "false")
      <<40, 100, 101, 102, 105, 110, 101, 32, 120, 32, 53, 41>>,   \* (define x 5)
      <<40, 108, 97, 109, 98, 100, 97, 32, 40, 120, 32, 121, 41, 32, 40, 61, 32, 120, 32, 121, 41, 41>>,   \* (lambda (x y) (= x y))
      <<40, 100, 101, 102, 105, 110, 101, 32, 40, 115, 113, 117, 97, 114, 101, 32, 120, 41, 32, 40, 42, 32, 120, 32, 120, 41, 41>>,   \* (define (square x) (* x x))
      <<40, 100, 101, 102, 105, 110, 101, 32, 40, 109, 117, 108, 32, 120, 32, 121, 41, 32, 40, 42, 32, 120, 32, 121, 41, 41>>,   \* (define (mul x y) (* x y))
      <<40, 100, 101, 102, 105, 110, 101, 32, 109, 117, 108, 32, 40, 108, 97, 109, 98, 100, 97, 32, 40, 120, 32, 121, 41, 32, 40, 42, 32, 120, 32, 121, 41, 41, 41>>,   \* (define mul (lambda (x y) (* x y)))
      <<40, 100, 101, 102, 105, 110, 101, 32, 40, 102, 41, 32, 49, 41>>,   \* (define (f) 1)
      <<40, 105, 102, 32, 49>>,   \* (if 1
      <<40, 100, 101, 102, 105, 110, 101>>,   \* (define
      <<40, 102, 32, 120, 41>>,   \* (f x)
      <<40, 108, 97, 109, 98, 100, 97, 32, 120, 41>>,   \* (lambda x)
      <<40, 100, 101, 102, 105, 110, 101, 32, 120, 41>>,   \* (define x)
      <<40, 105, 102, 32, 49, 32, 50, 41>>,   \* (if 1 2)
      <<40, 43, 32, 40, 105, 102, 32, 49, 32, 50, 41, 32, 51, 41>>,   \* (+ (if 1 2) 3)
      <<40, 108, 97, 109, 98, 100, 97, 32, 40, 120, 32, 49, 41, 41>>,   \* (lambda (x 1))
      <<40, 43, 32, 49, 32, 41>>    \* (+ 1 )
    }

\* numbers at the steps of the varint's length and at the ends of the range
CuratedNumbers ==
    {
      <<48>>,   \* 0
      <<54, 51>>,   \* 63
      <<54, 52>>,   \* 64
      <<56, 49, 57, 49>>,   \* 8191
      <<56, 49, 57, 50>>,   \* 8192
      <<48, 48, 55>>,   \* 007
      <<52, 54, 49, 49, 54, 56, 54, 48, 49, 56, 52, 50, 55, 51, 56, 55, 57, 48, 51>>,   \* 4611686018427387903
      <<52, 54, 49, 49, 54, 56, 54, 48, 49, 56, 52, 50, 55, 51, 56, 55, 57, 48, 52>>,   \* 4611686018427387904
      <<57, 50, 50, 51, 51, 55, 50, 48, 51, 54, 56, 53, 52, 55, 55, 53, 56, 48, 55>>,   \* 9223372036854775807
      <<57, 50, 50, 51, 51, 55, 50, 48, 51, 54, 56, 53, 52, 55, 55, 53, 56, 48, 56>>    \* 9223372036854775808
    }

DigitTexts == UNION {[1..n -> {48, 49, 57}] : n \in 1..MaxDigits}

\* f, x, y, and the names the parser knows
Names == {<<102>>, <<120>>, <<121>>, LambdaWord}

ParamLists == UNION {[1..n -> {<<120>>, <<121>>}] : n \in 0..MaxParams}

\* 1, x, (- 1 x), (define x 1)
Bodies ==
    {<<NewTokenRaw("IntLiteral", [bytes |-> PutVarint(<<1>>)])>>,
     <<Word(<<120>>)>>,
     <<LParenToken, NewTokenString("Op", <<45>>),
       NewTokenRaw("IntLiteral", [bytes |-> PutVarint(<<1>>)]), Word(<<120>>), RParenToken>>,
     <<LParenToken, Word(DefineWord), Word(<<120>>),
       NewTokenRaw("IntLiteral", [bytes |-> PutVarint(<<1>>)]), RParenToken>>}

Words(names) == [i \in 1..Len(names) |-> Word(names[i])]

\* (define (f p1 .. pn) B)
Shorthand(f, params, body) ==
    <<LParenToken, Word(DefineWord), LParenToken, Word(f)>> \o Words(params)
    \o <<RParenToken>> \o body \o <<RParenToken>>

\* (define f (lambda (p1 .. pn) B))
Longhand(f, params, body) ==
    <<LParenToken, Word(DefineWord), Word(f), LParenToken, Word(LambdaWord), LParenToken>>
    \o Words(params) \o <<RParenToken>> \o body \o <<RParenToken, RParenToken>>

Definitions ==
    {Shorthand(f, p, b) : f \in Names, p \in ParamLists, b \in Bodies}
    \cup {Longhand(f, p, b) : f \in Names, p \in ParamLists, b \in Bodies}

\* the tokens handed to ParseTokens, with the text they were lexed from
InitParse ==
    /\ Heap = NewVMHeap
    /\ Stack = NewVMStack
    /\ opcodes = << >>
    /\ cursor = 0
    /\ mnemonicMap = << >>
    /\ console = << >>
    /\ finished = FALSE
    /\ exitCode = FromInt64(0)
    /\ status = "ok"
    /\ returned = FromInt64(0)
    /\ live = {}
    /\ last = NoOp
    /\ prev = NoOp
    /\ idle = 0
    /\ accumulating = FALSE
    /\ accumulatingType = "None"
    /\ accumulatorBuffer = << >>
    /\ overrideState = "None"
    /\ currentIndex = 0
    /\ program = << >>
    /\ \/ /\ input \in CuratedTexts \cup CuratedNumbers \cup DigitTexts
          /\ tokens = LexExp(input)
       \/ /\ input = << >>
          /\ tokens \in Definitions \cup UNION {[1..n -> TokenAlphabet] : n \in 0..MaxTokens}

NextParse ==
    \/ ParseLoop
    \/ ParsePanic
    \/ ParseHang
    \/ ParseReturn

SpecParse == InitParse /\ [][NextParse]_vars

\* the run of the parser ends as the function says
ParseTokensIsTheRun ==
    status # "ok" =>
        /\ ParseTokens(tokens).status = status
        /\ ParseTokens(tokens).nodes = program
        /\ status = "returned" => ParseTokens(tokens).index = currentIndex

----------------------------------------------------------------------------
(* Properties of the parser.  The well-formed expressions are those of the *)
(* grammar: a literal, an identifier, (o E E) for an operator o, (if E E E),*)
(* (define x E), (define (f x ...) E), (lambda (x ...) E).                  *)

Literals == {"IntLiteral", "FloatLiteral", "StringLiteral", "BoolLiteral", "Ident"}

\* + - * / < <= > >= =
Operators == {<<43>>, <<45>>, <<42>>, <<47>>, <<60>>, <<60, 61>>, <<62>>, <<62, 61>>, <<61>>}

IsToken(toks, at, type) == at < Len(toks) /\ toks[at + 1].Type = type

IsWord(toks, at, text) == IsToken(toks, at, "Ident") /\ toks[at + 1].Value.bytes = text

\* the index after the identifiers that start at index at
RECURSIVE AfterIdents(_, _)
AfterIdents(toks, at) == IF IsToken(toks, at, "Ident") THEN AfterIdents(toks, at + 1) ELSE at

\* the index after the well-formed expression that starts at index at, -1
\* if none starts there
RECURSIVE ExpressionEnd(_, _)

\* the index after n well-formed expressions and a closing parenthesis
RECURSIVE OperandsEnd(_, _, _)
OperandsEnd(toks, at, n) ==
    IF n = 0 THEN (IF IsToken(toks, at, "RParen") THEN at + 1 ELSE 0 - 1)
    ELSE IF ExpressionEnd(toks, at) < 0 THEN 0 - 1
    ELSE OperandsEnd(toks, ExpressionEnd(toks, at), n - 1)

\* the index after a parameter list "x ... )" that starts at index at
ParamsEnd(toks, at) ==
    IF IsToken(toks, AfterIdents(toks, at), "RParen") THEN AfterIdents(toks, at) + 1 ELSE 0 - 1

ExpressionEnd(toks, at) ==
    IF at >= Len(toks) THEN 0 - 1
    ELSE IF toks[at + 1].Type \in Literals THEN at + 1
    ELSE IF ~IsToken(toks, at, "LParen") THEN 0 - 1
    ELSE IF IsToken(toks, at + 1, "Op")
    THEN IF toks[at + 2].Value.bytes \in Operators THEN OperandsEnd(toks, at + 2, 2) ELSE 0 - 1
    ELSE IF IsWord(toks, at + 1, IfWord) THEN OperandsEnd(toks, at + 2, 3)
    ELSE IF IsWord(toks, at + 1, DefineWord)
    THEN IF IsToken(toks, at + 2, "Ident") THEN OperandsEnd(toks, at + 3, 1)
         ELSE IF IsToken(toks, at + 2, "LParen") /\ IsToken(toks, at + 3, "Ident")
                 /\ ParamsEnd(toks, at + 4) >= 0
         THEN OperandsEnd(toks, ParamsEnd(toks, at + 4), 1)
         ELSE 0 - 1
    ELSE IF IsWord(toks, at + 1, LambdaWord)
    THEN IF IsToken(toks, at + 2, "LParen") /\ ParamsEnd(toks, at + 3) >= 0
         THEN OperandsEnd(toks, ParamsEnd(toks, at + 3), 1)
         ELSE 0 - 1
    ELSE 0 - 1

\* at index at stands ( o E1 E2 ) with an operator o and well-formed E1, E2
OperatorFormAt(toks, at) ==
    /\ IsToken(toks, at, "LParen")
    /\ IsToken(toks, at + 1, "Op")
    /\ toks[at + 2].Value.bytes \in Operators
    /\ OperandsEnd(toks, at + 2, 2) >= 0

\* the node variant of each operator
Variants ==
    {<<<<43>>, "AddNode">>, <<<<45>>, "SubNode">>, <<<<42>>, "MulNode">>, <<<<47>>, "DivNode">>,
     <<<<60>>, "LtNode">>, <<<<60, 61>>, "LteNode">>, <<<<62>>, "GtNode">>,
     <<<<62, 61>>, "GteNode">>, <<<<61>>, "EqNode">>}

\* parseExpression at ( o E1 E2 ): no error, the variant of o with the trees
\* of E1 and E2 as its children in this order, the index after the ")"
OperatorFormParsed(toks, at) ==
    LET r == parseExpression(toks, at)
    IN  /\ ~r.panic
        /\ r.err = NoError
        /\ <<toks[at + 2].Value.bytes, r.node.type>> \in Variants
        /\ r.node.subNodes = <<parseExpression(toks, at + 2).node,
                               parseExpression(toks, ExpressionEnd(toks, at + 2)).node>>
        /\ parseExpression(toks, at + 2).node # Nil
        /\ parseExpression(toks, ExpressionEnd(toks, at + 2)).node # Nil
        /\ r.index = OperandsEnd(toks, at + 2, 2)
        /\ toks[r.index].Type = "RParen"

\* C22: wherever the tokens read LParen, Op(o), E1, E2, RParen with E1 and
\* E2 well-formed, at the top or nested, parseExpression returns without
\* error the node variant of o with exactly the children parse(E1), parse(E2)
\* in this order and leaves the index just past the closing RParen; at the
\* top ParseTokens attaches this node to the program.
C22_OperatorExpressions ==
    /\ \A at \in 0..(Len(tokens) - 1) :
           OperatorFormAt(tokens, at) => OperatorFormParsed(tokens, at)
    /\ (status = "returned" /\ currentIndex > 0 /\ OperatorFormAt(tokens, 0)) =>
           program[1] = parseExpression(tokens, 0).node

\* "(* (- 8 (+ 5 6)) 52)" has been parsed: MulExp(SubExp(8, AddExp(5, 6)), 52)
C22_Witness ==
    /\ status = "returned"
    /\ input = <<40, 42, 32, 40, 45, 32, 56, 32, 40, 43, 32, 53, 32, 54, 41, 41, 32, 53, 50, 41>>
    /\ OperatorFormAt(tokens, 0) /\ OperatorFormAt(tokens, 2) /\ OperatorFormAt(tokens, 5)
    /\ Len(program) = 1
    /\ program[1].type = "MulNode"
    /\ program[1].subNodes[1].type = "SubNode"
    /\ DebugString(program[1]) = <<77, 117, 108, 69, 120, 112, 40, 83, 117, 98, 69, 120, 112, 40, 56, 44, 32, 65, 100, 100, 69, 120, 112, 40, 53, 44, 32, 54, 41, 41, 44, 32, 53, 50, 41>>

\* the tree Def(f, Lambda([p1 .. pn], B))
DefinitionTree(f, params, body) ==
    NewDefExp(f, NewLambdaExp(params, parseExpression(body, 0).node))

\* the tokens are the shorthand or the longhand of f, params, body and
\* ParseTokens has returned
DefinitionParsed(f, params, body) ==
    /\ status = "returned"
    /\ tokens \in {Shorthand(f, params, body), Longhand(f, params, body)}

\* C23: for a name f, parameters p1..pn (n >= 0) and a well-formed body B,
\* (define (f p1..pn) B) and (define f (lambda (p1..pn) B)) parse to the same
\* tree Def(f, Lambda([p1..pn], B)): the program read from either is this one
\* tree, the other form parses to an equal one, and the debug strings are equal.
C23_ShorthandIsLonghand ==
    \A f \in Names, params \in ParamLists, body \in Bodies :
        DefinitionParsed(f, params, body) =>
            /\ ExpressionEnd(body, 0) = Len(body)
            /\ program = <<DefinitionTree(f, params, body)>>
            /\ ParseTokens(Shorthand(f, params, body)).nodes = program
            /\ ParseTokens(Longhand(f, params, body)).nodes = program
            /\ DebugString(ParseTokens(Shorthand(f, params, body)).nodes[1])
                   = DebugString(ParseTokens(Longhand(f, params, body)).nodes[1])

\* (define (f x y) (- 1 x)) has been parsed
C23_Witness ==
    /\ DefinitionParsed(<<102>>, <<<<120>>, <<121>>>>, LexExp(<<40, 45, 32, 49, 32, 120, 41>>))
    /\ tokens = LexExp(<<40, 100, 101, 102, 105, 110, 101, 32, 40, 102, 32, 120, 32, 121, 41, 32, 40, 45, 32, 49, 32, 120, 41, 41>>)
    /\ Longhand(<<102>>, <<<<120>>, <<121>>>>, LexExp(<<40, 45, 32, 49, 32, 120, 41>>)) = LexExp(<<40, 100, 101, 102, 105, 110, 101, 32, 102, 32, 40, 108, 97, 109, 98, 100, 97, 32, 40, 120, 32, 121, 41, 32, 40, 45, 32, 49, 32, 120, 41, 41, 41>>)
    /\ program[1].type = "DefNode"
    /\ program[1].subNodes[1].Args = <<<<120>>, <<121>>>>
    /\ DebugString(program[1]) = <<68, 101, 102, 69, 120, 112, 40, 102, 44, 32, 76, 97, 109, 98, 100, 97, 69, 120, 112, 40, 120, 32, 121, 44, 32, 83, 117, 98, 69, 120, 112, 40, 49, 44, 32, 120, 41, 41, 41>>

\* the indexes at which k well-formed expressions that start at index at
\* begin, and the index after the last; << >> if fewer than k stand there
RECURSIVE ExpressionStarts(_, _)
ExpressionStarts(toks, at) ==
    IF at >= Len(toks) THEN <<at>>
    ELSE IF ExpressionEnd(toks, at) < 0 THEN << >>
    ELSE IF ExpressionStarts(toks, ExpressionEnd(toks, at)) = << >> THEN << >>
    ELSE <<at>> \o ExpressionStarts(toks, ExpressionEnd(toks, at))

\* the tokens are k >= 0 well-formed expressions, one after the other
WellFormedProgram(toks) == ExpressionStarts(toks, 0) # << >>

\* C24: for tokens that are k >= 0 well-formed top-level expressions one after
\* the other, ParseTokens returns a Program with exactly k children, the
\* i-th the tree of the i-th expression, with the index at the number of
\* tokens; on the way the program holds the trees of the expressions passed.
C24_OneChildPerExpression ==
    WellFormedProgram(tokens) =>
        /\ status \in {"ok", "returned"}
        /\ \E k \in 0..(Len(ExpressionStarts(tokens, 0)) - 1) :
               /\ Len(program) = k
               /\ currentIndex = ExpressionStarts(tokens, 0)[k + 1]
               /\ \A i \in 1..k :
                      /\ program[i] = parseExpression(tokens, ExpressionStarts(tokens, 0)[i]).node
                      /\ program[i] # Nil
        /\ status = "returned" =>
               /\ Len(program) = Len(ExpressionStarts(tokens, 0)) - 1
               /\ currentIndex = Len(tokens)

\* "(+ 3 4)\n(+ 5 6)" has been parsed into two children
C24_Witness ==
    /\ status = "returned"
    /\ input = <<40, 43, 32, 51, 32, 52, 41, 10, 40, 43, 32, 53, 32, 54, 41>>
    /\ ExpressionStarts(tokens, 0) = <<0, 5, 10>>
    /\ Len(program) = 2
    /\ currentIndex = 10
    /\ program[2].subNodes[1].Int.abs = <<5>>

\* the empty token sequence has been parsed into a Program without children
C24_EmptyProgram ==
    /\ status = "returned"
    /\ tokens = << >>
    /\ program = << >>
    /\ currentIndex = 0

\* a decimal text without its leading zeros, "0" for zeros only
RECURSIVE Canonical(_)
Canonical(text) == IF Len(text) > 1 /\ text[1] = 48 THEN Canonical(Tail(text)) ELSE text

\* a <= b for decimal texts of one length
RECURSIVE DecimalLessEq(_, _)
DecimalLessEq(a, b) ==
    IF a = << >> THEN TRUE
    ELSE IF a[1] # b[1] THEN a[1] < b[1]
    ELSE DecimalLessEq(Tail(a), Tail(b))

\* the text is a number n of decimal digits with 0 <= n <= 2^63 - 1
DecimalInt64(text) ==
    /\ text # << >>
    /\ AllDigits(text)
    /\ \/ Len(Canonical(text)) < 19
       \/ Len(Canonical(text)) = 19 /\ DecimalLessEq(Canonical(text), <<57, 50, 50, 51, 51, 55, 50, 48, 51, 54, 56, 53, 52, 55, 55, 53, 56, 48, 55>>)

----------------------------------------------------------------------------
(* Properties of the list and heap instructions.                           *)

\* the next opcode is 0x46 (cmpl) and two cells are on the stack
CmplStep ==
    /\ status = "ok"
    /\ CanStep(VM)
    /\ opcodes[cursor + 1] = 70
    /\ Holds(Stack, 48)

\* the data addresses of the cells of the cmpl at the cursor: y of the top
\* cell, x of the cell below it
CmplY == ToInt64(PopCell(Stack).val[2])

CmplX == ToInt64(PopCell(PopCell(Stack).s).val[2])

\* C26: cmpl pops two cells and pushes the byte cmpi would push for their
\* data addresses in the same stack positions: with x of the deeper cell and
\* y of the top cell, 0 if x = y, 1 if x > y, 2 if x < y.
C26_CmplPushesAsCmpi ==
    [][CmplStep =>
         /\ Stack'.byteStack =
               Append(SubSeq(Stack.byteStack, 1, Stack.len - 48),
                      IF CmplX = CmplY THEN 0 ELSE IF CmplX > CmplY THEN 1 ELSE 2)
         /\ Stack'.len = Stack.len - 47
         /\ Stack'.lenLastPushed = 1]_vars

\* what cmpl does: it pops two cells and pushes one byte, 0 for equal data
\* addresses, 1 if the address of the top cell is the greater, 2 otherwise
C26_CmplComparesTopWithDeeper ==
    [][CmplStep =>
         /\ Stack'.byteStack =
               Append(SubSeq(Stack.byteStack, 1, Stack.len - 48),
                      IF CmplX = CmplY THEN 0 ELSE IF CmplY > CmplX THEN 1 ELSE 2)
         /\ Stack'.len = Stack.len - 47
         /\ Stack'.lenLastPushed = 1]_vars

\* cmpl has compared a cell with data address 0 and, on top of it, a cell
\* with data address 1, and pushed 1
C26_TopGreaterPushesOne ==
    /\ last.op = "cmpl"
    /\ status = "ok"
    /\ opcodes = <<6, 3>> \o FromInt64(0) \o <<3>> \o FromInt64(1) \o <<3>> \o FromInt64(0) \o <<70>>
    /\ Stack.byteStack = <<1>>

\* the next opcode is 0x0C (hstores), its mnemonic names an allocated block
\* and a string is on the stack
HstoresStep ==
    /\ status = "ok"
    /\ CanStep(VM)
    /\ opcodes[cursor + 1] = 12
    /\ cursor + 3 <= Len(opcodes)
    /\ SubSeq(opcodes, cursor + 2, cursor + 3) \in DOMAIN mnemonicMap
    /\ MapGet(mnemonicMap, SubSeq(opcodes, cursor + 2, cursor + 3), 0) \in DOMAIN Heap.blockMap
    /\ HoldsString(Stack)

\* the mnemonic of the hstores at the cursor, its address, the capacity
\* stored there and the string on the stack
HstoresMnemonic == SubSeq(opcodes, cursor + 2, cursor + 3)

HstoresAddress == MapGet(mnemonicMap, HstoresMnemonic, 0)

HstoresCapacity == ToUint64(Read(Heap, 8, HstoresAddress))

HstoresString == PopString(Stack).val

\* the address the mnemonic of the hstores has after the step
HstoresAddressAfter == MapGet(mnemonicMap', HstoresMnemonic, 0)

C27_Regrown ==
    /\ last.op = "hstores"
    /\ status = "ok"
    /\ prev.op = "pushs"
    /\ opcodes = <<3>> \o FromInt64(2)
                     \o <<36, 1, 1, 5, 72, 105, 0, 12, 1, 1, 68, 3, 3, 1, 1, 24, 3, 3, 67, 5>>
    /\ ToUint64(Read(Heap, 8, MapGet(mnemonicMap, <<1, 1>>, 0))) = 3
    /\ Read(Heap, 3, MapGet(mnemonicMap, <<1, 1>>, 0) + 8) = <<72, 105, 0>>

\* the next opcode is 0x4B (hscar) and on the stack lie a cell and, on top
\* of it, a fixed-width value (an int or a double: 8 bytes)
HscarStep ==
    /\ status = "ok"
    /\ CanStep(VM)
    /\ opcodes[cursor + 1] = 75
    /\ Stack.lenLastPushed = 8
    /\ Holds(Stack, 32)
    /\ last.op \in {"pushi", "pushd"}

\* the value on top of the stack, and the cell below it
HscarValue == SubSeq(Stack.byteStack, Stack.len - 7, Stack.len)

HscarCell == PopCell(PopInt(Stack).s).val

\* the cell on top of the stack
TopCell == PopCell(Stack).val

\* the bytes of value lie in the heap at address, in either order
HeapHolds(h, value, address) ==
    \/ Read(h, Len(value), address) = value
    \/ Read(h, Len(value), address) = Reverse(value)

\* the step is the hcar that follows the hscar of the value `last` records
HcarAfterHscar ==
    /\ status = "ok"
    /\ CanStep(VM)
    /\ opcodes[cursor + 1] = 71
    /\ last.op = "hscar"
    /\ prev.op \in {"pushi", "pushd"}

\* the value the hscar before the cursor stored: the operand of the pushi
\* or pushd before it
StoredValue == SubSeq(opcodes, prev.at + 2, prev.at + 9)

\* C28: with a cell on the stack and a fixed-width value V (int or double)
\* on top of it, hscar pushes the cell with a length >= the width of V, a
\* dataAddr at which the heap holds V's bytes and the nextAddr it had; the
\* hcar that follows leaves V's bytes on top of the stack in their original
\* order, with lenLastPushed the width of V.
C28_HscarThenHcar ==
    [][/\ HscarStep =>
             /\ status' = "ok"
             /\ Stack'.len = Stack.len - 8
             /\ Stack'.lenLastPushed = 24
             /\ ToUint64(PopCell(Stack').val[1]) >= 8
             /\ HeapHolds(Heap', HscarValue, ToUint64(PopCell(Stack').val[2]))
             /\ PopCell(Stack').val[3] = HscarCell[3]
             /\ PopCell(Stack').s.byteStack = PopCell(PopInt(Stack).s).s.byteStack
       /\ HcarAfterHscar =>
             /\ status' = "ok"
             /\ Stack'.len = Stack.len - 24 + ToUint64(TopCell[1])
             /\ SubSeq(Stack'.byteStack, Stack'.len - 7, Stack'.len) = StoredValue
             /\ Stack'.lenLastPushed = 8
             /\ ToUint64(TopCell[1]) = 8]_vars

\* what the two steps do: the cell keeps a length above the width of V when
\* it had one, and hcar pushes as many bytes as the length says, V's bytes
\* topmost and in their original order, with lenLastPushed that length
C28_ValueOnTopOfTheCar ==
    [][/\ HscarStep =>
             /\ status' = "ok"
             /\ Stack'.len = Stack.len - 8
             /\ ToUint64(PopCell(Stack').val[1]) >= 8
             /\ ToUint64(HscarCell[1]) >= 8 => PopCell(Stack').val = HscarCell
             /\ HeapHolds(Heap', HscarValue, ToUint64(PopCell(Stack').val[2]))
             /\ PopCell(Stack').val[3] = HscarCell[3]
       /\ HcarAfterHscar =>
             /\ status' = "ok"
             /\ Stack'.len = Stack.len - 24 + ToUint64(TopCell[1])
             /\ SubSeq(Stack'.byteStack, Stack'.len - 7, Stack'.len) = StoredValue
             /\ Stack'.lenLastPushed = ToUint64(TopCell[1])]_vars

\* cons; cons; hscar; pushi 4; hscar; hcar has run: the car held a cell of 24
\* bytes, and hcar has pushed 24 bytes for the integer
C28_StaleLength ==
    /\ last.op = "hcar"
    /\ prev.op = "hscar"
    /\ status = "ok"
    /\ opcodes = <<6, 6, 75, 3>> \o FromInt64(4) \o <<75, 71>>
    /\ Stack.len = 24
    /\ Stack.lenLastPushed = 24
    /\ SubSeq(Stack.byteStack, 17, 24) = FromInt64(4)

\* cons; pushi 4; hscar; hcar has run: the 4 is back on the stack
C28_Witness ==
    /\ last.op = "hcar"
    /\ prev.op = "hscar"
    /\ status = "ok"
    /\ opcodes = <<6, 3>> \o FromInt64(4) \o <<75, 71>>
    /\ Stack.byteStack = FromInt64(4)
    /\ Stack.lenLastPushed = 8

\* the mnemonic operand of the instruction at the cursor, and its address
OperandMnemonic == SubSeq(opcodes, cursor + 2, cursor + 3)

OperandAddress == MapGet(mnemonicMap, OperandMnemonic, 0)

\* the next opcode is code, with a mnemonic that names an allocated block
MnemonicStep(code) ==
    /\ status = "ok"
    /\ CanStep(VM)
    /\ opcodes[cursor + 1] = code
    /\ cursor + 3 <= Len(opcodes)
    /\ OperandMnemonic \in DOMAIN mnemonicMap
    /\ OperandAddress \in DOMAIN Heap.blockMap

\* the heap bytes outside the n bytes at address are as they were
OnlyWritten(address, n) ==
    \A a \in (DOMAIN Heap.heapSpace) \cup (DOMAIN Heap'.heapSpace) :
        (a < address \/ a >= address + n) => Read(Heap', 1, a) = Read(Heap, 1, a)

\* C29: after hnewi m (hnewl m), hstorei m (hstorel m) writes the popped
\* value into the 8 (24) bytes at m's address and no other heap byte, and
\* hloadi m (hloadl m) pushes the 8 (24) bytes that lie there: the value
\* stored, for a cell its length, dataAddr and nextAddr.
C29_StoreThenLoad ==
    [][/\ (MnemonicStep(10) /\ Holds(Stack, 8)) =>
             /\ status' = "ok"
             /\ Read(Heap', 8, OperandAddress) = PopInt(Stack).val
             /\ OnlyWritten(OperandAddress, 8)
             /\ Stack'.byteStack = PopInt(Stack).s.byteStack
       /\ (MnemonicStep(13) /\ Holds(Stack, 24)) =>
             /\ status' = "ok"
             /\ Read(Heap', 24, OperandAddress) =
                   PopCell(Stack).val[1] \o PopCell(Stack).val[2] \o PopCell(Stack).val[3]
             /\ OnlyWritten(OperandAddress, 24)
             /\ Stack'.byteStack = PopCell(Stack).s.byteStack
       /\ MnemonicStep(22) =>
             /\ status' = "ok"
             /\ Stack' = PushInt(Stack, Read(Heap, 8, OperandAddress))
             /\ Heap' = Heap
       /\ MnemonicStep(25) =>
             /\ status' = "ok"
             /\ Stack'.len = Stack.len + 24
             /\ PopCell(Stack').val = <<Read(Heap, 8, OperandAddress),
                                        Read(Heap, 8, OperandAddress + 8),
                                        Read(Heap, 8, OperandAddress + 16)>>
             /\ PopCell(Stack').s.byteStack = Stack.byteStack
             /\ Heap' = Heap]_vars

\* hnewi a; pushi 258; hstorei a; hloadi a has run: 258 is on the stack
C29_Witness ==
    /\ last.op = "hloadi"
    /\ prev.op = "hstorei"
    /\ status = "ok"
    /\ opcodes = <<34, 2, 2, 3>> \o FromInt64(258) \o <<10, 2, 2, 22, 2, 2>>
    /\ Stack.byteStack = FromInt64(258)

\* hnewl a; pushi 3; pushi 2; pushi 1; hstorel a; hloadl a has run: the cell
\* (length 1, dataAddr 2, nextAddr 3) is on the stack again
C29_CellLoaded ==
    /\ last.op = "hloadl"
    /\ prev.op = "hstorel"
    /\ status = "ok"
    /\ PopCell(Stack).val = <<FromInt64(1), FromInt64(2), FromInt64(3)>>
    /\ Stack.len = 24

\* the syscall numbers that have a case in Step
HandledSyscalls == {3, 4, 5, 6}

\* the next opcode has no case in Step
UnhandledStep ==
    /\ status = "ok"
    /\ CanStep(VM)
    /\ opcodes[cursor + 1] \notin Handled

\* the next opcode is syscall and its operand has no case
UnhandledSyscallStep ==
    /\ status = "ok"
    /\ CanStep(VM)
    /\ opcodes[cursor + 1] = 67
    /\ cursor + 2 <= Len(opcodes)
    /\ opcodes[cursor + 2] \notin HandledSyscalls

C30_SyscallWithoutOperand ==
    /\ last.op = "syscall"
    /\ opcodes = <<3>> \o FromInt64(4) \o <<67>>
    /\ cursor = 10
    /\ Stack = PushInt(NewVMStack, FromInt64(4))
    /\ status = "ok"

----------------------------------------------------------------------------
(* Properties of the '#' branch of the lexer.                              *)

\* the loop is at a '#' outside |...| and a string, and neither 't' nor 'f'
\* follows it
LoneHashStep ==
    /\ status = "ok"
    /\ currentIndex < Len(input)
    /\ overrideState = "None"
    /\ glyph = 35
    /\ peek(input, currentIndex) \notin {116, 102}

\* C31: a '#' outside |...| and a string that no 't' or 'f' follows adds
\* exactly one Char token with payload '#' to the tokens, whatever token was
\* being accumulated, and leaves the payloads of the other tokens alone.
C31_LoneHashIsOneChar ==
    [][LoneHashStep =>
          \E flushed \in {tokens, Flushed} :
              tokens' = Append(flushed, NewTokenString("Char", <<35>>))]_vars

\* what holds: while nothing is accumulated the '#' adds the one Char token
C31_LoneHashWhileNotAccumulating ==
    [][(LoneHashStep /\ ~accumulating) =>
          tokens' = Append(tokens, NewTokenString("Char", <<35>>))]_vars

\* "t#" has been read: the '#' left no Char token and the identifier ends
\* with the byte 0
C31_HashInsideIdent ==
    /\ input = <<116, 35>>
    /\ currentIndex = 2
    /\ tokens = <<NewTokenRaw("Ident", [bytes |-> <<116, 0>>])>>

\* "(#" has been read: the '#' is a Char token
C31_LoneHashSeen ==
    /\ input = <<40, 35>>
    /\ currentIndex = 2
    /\ tokens = <<NewTokenString("LParen", <<40>>), NewTokenString("Char", <<35>>)>>

----------------------------------------------------------------------------
(* Properties of the nodes' discriminators.                                *)

\* GetType: the field type of a node names its struct (AddExp as "AddNode",
\* GteExp as "GteNode", ...); every struct returns the constant of its own
\* name but GteExp, whose GetType returns LteNode
GetType(node) == IF node.type = "GteNode" THEN "LteNode" ELSE node.type

\* the node and the nodes below it
RECURSIVE Descendants(_)
Descendants(node) ==
    {node} \cup UNION {Descendants(node.subNodes[i]) : i \in 1..Len(node.subNodes)}

\* the nodes of the program ParseTokens has returned
ProgramNodes == UNION {Descendants(program[i]) : i \in 1..Len(program)}

\* C32: GetType returns the discriminator of the node's own variant, so
\* nodes of two variants never report the same type; the node built for
\* '>=' reports GteNode and the node built for '<=' reports LteNode.
C32_GetTypeIsOwnDiscriminator ==
    status = "returned" =>
        /\ \A a, b \in ProgramNodes : a.type # b.type => GetType(a) # GetType(b)
        /\ \A n \in ProgramNodes : n.type = "GteNode" => GetType(n) = "GteNode"
        /\ \A n \in ProgramNodes : n.type = "LteNode" => GetType(n) = "LteNode"

\* what holds: every variant but GteExp reports its own discriminator, and
\* no two of them the same
C32_GetTypeButGte ==
    status = "returned" =>
        \A a, b \in {n \in ProgramNodes : n.type \notin {"GteNode", "nil"}} :
            /\ GetType(a) = a.type
            /\ a.type # b.type => GetType(a) # GetType(b)

\* (>= (> 6 2) 9) has been parsed: its node reports LteNode
C32_GteReportsLte ==
    /\ status = "returned"
    /\ Len(program) = 1
    /\ program[1].type = "GteNode"
    /\ program[1].subNodes[1].type = "GtNode"
    /\ GetType(program[1]) = "LteNode"

----------------------------------------------------------------------------
(* Properties of the parser's errors.                                      *)

\* the messages of the errors expect returns
ExpectMessages == {"Unexpected EOF", "Unexpected token "}

\* the closeExp of the parseArgs that starts at index at fails
ArgsError(toks, at) == closeExp(toks, AfterIdents(toks, at)).err # NoError

\* the indexes at which the parseExpression called at index at, on "(",
\* calls parseExpression itself, for a call that does not panic
SubCalls(toks, at) ==
    IF ~IsToken(toks, at, "LParen") THEN {}
    ELSE IF IsToken(toks, at + 1, "Op")
    THEN {at + 2} \cup (IF parseExpression(toks, at + 2).err = NoError
                        THEN {parseExpression(toks, at + 2).index} ELSE {})
    ELSE IF IsWord(toks, at + 1, IfWord)
    THEN {at + 2, parseExpression(toks, at + 2).index,
          parseExpression(toks, parseExpression(toks, at + 2).index).index}
    ELSE IF IsWord(toks, at + 1, DefineWord)
    THEN IF IsToken(toks, at + 2, "LParen")
         THEN IF expect(toks, "Ident", at + 3) # NoError THEN {}
              ELSE {parseArgs(toks, at + 4, << >>).index}
         ELSE IF expect(toks, "Ident", at + 2) # NoError THEN {} ELSE {at + 3}
    ELSE IF IsWord(toks, at + 1, LambdaWord)
    THEN IF expect(toks, "LParen", at + 2) # NoError THEN {}
         ELSE {parseArgs(toks, at + 3, << >>).index}
    ELSE {}

\* the parseExpression called at index at calls parseArgs, whose closeExp
\* fails
ArgsFailed(toks, at) ==
    /\ IsToken(toks, at, "LParen")
    /\ \/ /\ IsWord(toks, at + 1, DefineWord)
          /\ IsToken(toks, at + 2, "LParen")
          /\ expect(toks, "Ident", at + 3) = NoError
          /\ ArgsError(toks, at + 4)
       \/ /\ IsWord(toks, at + 1, LambdaWord)
          /\ expect(toks, "LParen", at + 2) = NoError
          /\ ArgsError(toks, at + 3)

\* an expect or a closeExp fails in the parseExpression called at index at
\* or in a call below it.  A call returns the error of an expect or closeExp
\* of its own; the closeExp of parseArgs is the one whose error the caller
\* never sees.
RECURSIVE CheckFailed(_, _)
CheckFailed(toks, at) ==
    \/ parseExpression(toks, at).err.msg \in ExpectMessages
    \/ ArgsFailed(toks, at)
    \/ \E sub \in SubCalls(toks, at) : CheckFailed(toks, sub)

\* C33: when an expect or closeExp fails anywhere inside a parseExpression
\* call, at any depth, the call ParseTokens made returns an error and no
\* node.
C33_CheckFailureReachesTheTop ==
    (last.op = "parse" /\ status # "panic" /\ CheckFailed(tokens, last.at)) =>
        /\ parseExpression(tokens, last.at).err # NoError
        /\ program[Len(program)] = Nil

\* what holds: among operators, literals and identifiers, where no if,
\* define or lambda is met, the failure is returned
C33_FailureAmongOperators ==
    (last.op = "parse" /\ status # "panic" /\ CheckFailed(tokens, last.at)
             /\ \A i \in 0..(Len(tokens) - 1) :
                    ~IsWord(tokens, i, IfWord) /\ ~IsWord(tokens, i, DefineWord)
                    /\ ~IsWord(tokens, i, LambdaWord)) =>
        /\ parseExpression(tokens, last.at).err # NoError
        /\ program[Len(program)] = Nil

\* (if 1 2) has been parsed: the third parseExpression failed at ")", and
\* the call returned the IfExp with a nil branch and no error
C33_IfWithoutElse ==
    /\ input = <<40, 105, 102, 32, 49, 32, 50, 41>>
    /\ status = "returned"
    /\ Len(program) = 1
    /\ program[1].type = "IfNode"
    /\ program[1].subNodes[3] = Nil
    /\ CheckFailed(tokens, 0)
    /\ parseExpression(tokens, 0).err = NoError

\* (+ 1 ) has been parsed: the failure of the operand was returned
C33_OperandFailure ==
    /\ input = <<40, 43, 32, 49, 32, 41>>
    /\ last.op = "parse"
    /\ program = <<Nil>>
    /\ parseExpression(tokens, 0).err.msg = "Unexpected token "

----------------------------------------------------------------------------
(* Properties of the order of the tokens.                                  *)

\* the loop reads a glyph while a token is pending in the accumulator: the
\* lexeme of the pending token starts before the glyph
PendingStep ==
    /\ status = "ok"
    /\ currentIndex < Len(input)
    /\ accumulating

\* the token the accumulator gives when it is flushed with extra behind it
PendingToken(extra) ==
    flushAccumulator(accumulatingType, accumulatorBuffer \o extra, << >>)[1]

\* C34: the tokens are in the order of the source.  A token whose lexeme
\* starts at the glyph follows the pending token, whose lexeme started
\* before: the first token a step adds while a token is pending is the
\* pending one (as it is, or ended by the glyph).
C34_TokensInSourceOrder ==
    [][(PendingStep /\ Len(tokens') > Len(tokens)) =>
          \E extra \in {<< >>, <<glyph>>, <<0>>, <<1>>} :
              tokens'[Len(tokens) + 1] = PendingToken(extra)]_vars

\* what holds: white space, a parenthesis and a quote emit the pending
\* token before their own
C34_PendingFirstAtDelimiters ==
    [][(PendingStep /\ overrideState = "None" /\ Len(tokens') > Len(tokens)
                    /\ (IsSpace(glyph) \/ glyph \in {40, 41, 34})) =>
          tokens'[Len(tokens) + 1] = PendingToken(<< >>)]_vars

\* "t+" has been lexed: the '+' precedes the identifier t
C34_OperatorBeforeIdent ==
    /\ input = <<116, 43>>
    /\ status = "returned"
    /\ tokens = <<NewTokenString("Char", <<43>>), NewTokenRaw("Ident", [bytes |-> <<116>>])>>

\* "1." has been lexed: the '.' precedes the number 1
C34_DotBeforeNumber ==
    /\ input = <<49, 46>>
    /\ status = "returned"
    /\ tokens = <<NewTokenString("Dot", <<46>>),
                  NewTokenRaw("IntLiteral", [bytes |-> PutVarint(<<1>>)])>>

\* "t(" has been lexed: the identifier precedes the parenthesis
C34_IdentBeforeParen ==
    /\ input = <<116, 40>>
    /\ status = "returned"
    /\ tokens = <<NewTokenRaw("Ident", [bytes |-> <<116>>]), NewTokenString("LParen", <<40>>)>>

----------------------------------------------------------------------------
(* Properties of the loop of ParseTokens.                                  *)

\* ParseTokens is in its loop, with tokens left
InParseLoop ==
    /\ status = "ok"
    /\ Len(tokens) - 1 >= currentIndex

\* C35: ParseTokens terminates on every token sequence: a pass of its loop
\* whose parseExpression returns leaves the index further on, so the loop
\* ends after at most as many passes as there are tokens.
C35_EveryPassAdvances ==
    [][(InParseLoop /\ status' # "panic") =>
          /\ currentIndex' > currentIndex
          /\ status' = "ok"
          /\ Len(program') <= Len(tokens)]_vars

\* what holds: a pass whose parseExpression returns a node advances, and
\* the tokens of well-formed expressions are parsed to the end
C35_WellFormedProgramsEnd ==
    /\ WellFormedProgram(tokens) => status \in {"ok", "returned"}
    /\ (InParseLoop /\ ~parseExpression(tokens, currentIndex).panic
                    /\ parseExpression(tokens, currentIndex).err = NoError) =>
           parseExpression(tokens, currentIndex).index > currentIndex

\* the tokens 1 ) : after the literal, parseExpression fails at ")" with
\* the index where it was, and ParseTokens calls it again and again
C35_Hang ==
    /\ tokens = <<NewTokenRaw("IntLiteral", [bytes |-> PutVarint(<<1>>)]), RParenToken>>
    /\ status = "hang"
    /\ currentIndex = 1

\* (+ 3 4)\n(+ 5 6) has been parsed to the end in two passes
C35_TwoPasses ==
    /\ input = <<40, 43, 32, 51, 32, 52, 41, 10, 40, 43, 32, 53, 32, 54, 41>>
    /\ status = "returned"
    /\ Len(program) = 2
    /\ currentIndex = Len(tokens)

----------------------------------------------------------------------------
(* Properties of the reads of the token slice.                             *)

\* C36: accept, grabAccepted and parseExpression read tokens only at
\* indexes from 0 to len(tokens) - 1, also for tokens that end in the
\* middle of an expression: no run of ParseTokens ends with an index out of
\* range.
C36_NoReadBehindTheTokens == status # "panic"

\* the tokens are one well-formed expression without its last ")"
LacksClosingParen(toks) ==
    /\ toks # << >>
    /\ ExpressionEnd(Append(toks, RParenToken), 0) = Len(toks) + 1

\* what holds: where only the closing parenthesis of the outermost
\* expression is missing, the end of the tokens is met by expect and
\* reported as "Unexpected EOF"
C36_MissingLastParenIsAnError ==
    LacksClosingParen(tokens) =>
        /\ ~parseExpression(tokens, 0).panic
        /\ parseExpression(tokens, 0).err.msg = "Unexpected EOF"
        /\ parseExpression(tokens, 0).node = Nil
        /\ status # "panic"

\* the tokens ( - 1 : the second operand is looked for behind the last
\* token, accept indexes the slice at len(tokens) and the run panics
C36_OperandBehindTheEnd ==
    /\ tokens = <<LParenToken, NewTokenString("Op", <<45>>),
                  NewTokenRaw("IntLiteral", [bytes |-> PutVarint(<<1>>)])>>
    /\ status = "panic"

\* the tokens ( - 1 x : closeExp met the end and the pass appended nil
C36_EofReported ==
    /\ tokens = <<LParenToken, NewTokenString("Op", <<45>>),
                  NewTokenRaw("IntLiteral", [bytes |-> PutVarint(<<1>>)]), Word(<<120>>)>>
    /\ status = "returned"
    /\ program = <<Nil>>

----------------------------------------------------------------------------
(* Properties of Allocate on a heap without a block large enough.          *)

\* C37: Allocate(n) terminates in every heap state for every n >= 1, also
\* when no free block of order >= OrderFor(n) exists: the search of
\* CreateBlock ends, and Allocate reads no empty free list.
C37_AllocateReturns == last.op = "alloc" => last.st = "ok"

\* what holds: with a free block of the order of n or above, Allocate
\* returns the address of a block
C37_AllocateReturnsWithDonor ==
    [][(last'.op = "alloc" /\ last'.count = last.count + 1
        /\ \E k \in OrderFor(last'.n)..maxOrder : ~NoFreeBlocksFor(Heap, k)) =>
          /\ last'.st = "ok"
          /\ last'.addr \in DOMAIN Heap'.blockMap]_vars

\* Allocate(16384) took the root block; in the next Allocate every free
\* list is empty and the first loop of CreateBlock goes round for ever
C37_ExhaustedHangs ==
    /\ prev.op = "alloc"
    /\ prev.n = 16384
    /\ last.op = "alloc"
    /\ last.st = "hang"
    /\ status = "hang"

\* after Allocate(8192) the only free block has order 8: in Allocate(16384)
\* freeOrder wraps round to 8, no block is split and GetFreeBlock(9) reads
\* the first entry of an empty list
C37_SmallerBlockOnlyPanics ==
    /\ prev.op = "alloc"
    /\ prev.n = 8192
    /\ last.op = "alloc"
    /\ last.n = 16384
    /\ last.st = "panic"

----------------------------------------------------------------------------
(* Properties of the heap writes of the interpreter.                       *)

\* an instruction code with the mnemonic m lies before the cursor
RanWith(code, m) ==
    \E p \in 0..(cursor - 3) : opcodes[p + 1] = code /\ SubSeq(opcodes, p + 2, p + 3) = m

\* the next opcode is code; its mnemonic was bound by the instruction alloc
StoreStep(code, alloc) ==
    /\ status = "ok"
    /\ CanStep(VM)
    /\ opcodes[cursor + 1] = code
    /\ cursor + 3 <= Len(opcodes)
    /\ RanWith(alloc, OperandMnemonic)

\* the bytes of the block at address a, and whether it is a block of h
BlockBytes(h, a) == blockSize * Pow2(h.blockMap[a])

IsBlock(h, a) == a \in DOMAIN h.blockMap /\ ~InFreeList(h, a)

\* the step changes no heap byte outside the allocated block at a, which
\* lies in the arena
WritesInside(a) ==
    /\ IsBlock(Heap', a)
    /\ a + BlockBytes(Heap', a) <= initialHeapSize
    /\ OnlyWritten(a, BlockBytes(Heap', a))

\* C38: every byte hnews, hstores, hstorei, hstorel and hscar write to the
\* heap, for a mnemonic bound by the matching allocation or the car of a
\* cell, lies in the block allocated for it and below initialHeapSize: the
\* instruction changes no byte of another block.
C38_WritesStayInTheBlock ==
    [][/\ (StoreStep(10, 34) /\ status' = "ok") => WritesInside(OperandAddress)
       /\ (StoreStep(13, 37) /\ status' = "ok") => WritesInside(OperandAddress)
       /\ (StoreStep(12, 36) /\ status' = "ok") =>
             WritesInside(mnemonicMap'[OperandMnemonic])
       /\ (status = "ok" /\ CanStep(VM) /\ opcodes[cursor + 1] = 36 /\ status' = "ok"
           /\ cursor + 3 <= Len(opcodes)) =>
             WritesInside(mnemonicMap'[OperandMnemonic])
       /\ (HscarStep /\ status' = "ok") =>
             WritesInside(ToUint64(PopCell(Stack').val[2]))]_vars

\* what holds: the 8 bytes of hstorei and hnews, the 24 bytes of hstorel and
\* an 8-byte value of hscar lie in the block they are written to
C38_FixedWidthWritesStayInTheBlock ==
    [][/\ (StoreStep(10, 34) /\ status' = "ok") => WritesInside(OperandAddress)
       /\ (StoreStep(13, 37) /\ status' = "ok") => WritesInside(OperandAddress)
       /\ (status = "ok" /\ CanStep(VM) /\ opcodes[cursor + 1] = 36 /\ status' = "ok"
           /\ cursor + 3 <= Len(opcodes)) =>
             WritesInside(mnemonicMap'[OperandMnemonic])
       /\ (HscarStep /\ status' = "ok") =>
             WritesInside(ToUint64(PopCell(Stack').val[2]))]_vars

\* hnewi b; pushi 0; hnews s; pushs "a" x 25; hstores s; hloadi b has run:
\* the 26 bytes of the string lie behind the 8 of its length in a block of
\* 32 bytes, and the integer of b, never stored, is 'a' 'a'
C38_StringRanIntoNextBlock ==
    /\ last.op = "hloadi"
    /\ prev.op = "hstores"
    /\ status = "ok"
    /\ Stack.byteStack = <<97, 0, 0, 0, 0, 0, 0, 0>>
    /\ BlockBytes(Heap, mnemonicMap[<<1, 1>>]) = 32
    /\ mnemonicMap[<<2, 2>>] = mnemonicMap[<<1, 1>>] + 32

----------------------------------------------------------------------------
(* Properties of the mnemonic table.                                       *)

\* the mnemonic m refers to the start of an allocated block of h
RefersToBlock(h, map, m) == m \in DOMAIN map /\ IsBlock(h, map[m])

\* the next opcode is code, with its operands in the program
OperandStep(code, width) ==
    /\ status = "ok"
    /\ CanStep(VM)
    /\ opcodes[cursor + 1] = code
    /\ cursor + 1 + width <= Len(opcodes)

\* the second mnemonic of the hsmnem at the cursor: its source
SourceMnemonic == SubSeq(opcodes, cursor + 4, cursor + 5)

\* C39: every bound mnemonic refers to the start of an allocated block:
\* hnewi, hnews and hnewl bind theirs to the block they allocate, hsmnem
\* binds its own to the block of a bound source, and no step, hstores
\* moving a string in particular, takes the block away from a mnemonic that
\* refers to one.
C39_MnemonicsReferToBlocks ==
    [][/\ ((OperandStep(34, 2) \/ OperandStep(36, 2) \/ OperandStep(37, 2))
              /\ status' = "ok") =>
             RefersToBlock(Heap', mnemonicMap', OperandMnemonic)
       /\ (OperandStep(68, 4) /\ RefersToBlock(Heap, mnemonicMap, SourceMnemonic)) =>
             RefersToBlock(Heap', mnemonicMap', OperandMnemonic)
       /\ (status = "ok" /\ status' = "ok") =>
             \A m \in DOMAIN mnemonicMap :
                 RefersToBlock(Heap, mnemonicMap, m) => RefersToBlock(Heap', mnemonicMap', m)]_vars

\* what holds: the mnemonic of hnewi, hnews, hnewl and hsmnem refers to a
\* block, and the steps that free no block keep every reference
C39_BindingRefersToBlock ==
    [][/\ ((OperandStep(34, 2) \/ OperandStep(36, 2) \/ OperandStep(37, 2))
              /\ status' = "ok") =>
             RefersToBlock(Heap', mnemonicMap', OperandMnemonic)
       /\ (OperandStep(68, 4) /\ RefersToBlock(Heap, mnemonicMap, SourceMnemonic)) =>
             RefersToBlock(Heap', mnemonicMap', OperandMnemonic)
       /\ (status = "ok" /\ status' = "ok" /\ CanStep(VM)
           /\ opcodes[cursor + 1] \notin {12, 75}) =>
             \A m \in DOMAIN mnemonicMap :
                 RefersToBlock(Heap, mnemonicMap, m) => RefersToBlock(Heap', mnemonicMap', m)]_vars

\* pushi 2; hnews s; hsmnem t s; pushs "a" x 55; hstores s has run: s has a
\* new block of 64 bytes, and t refers into the middle of it, where the old
\* block was
C39_AliasLeftBehind ==
    /\ last.op = "hstores"
    /\ status = "ok"
    /\ <<1, 1>> \in DOMAIN mnemonicMap
    /\ <<3, 3>> \in DOMAIN mnemonicMap
    /\ IsBlock(Heap, mnemonicMap[<<1, 1>>])
    /\ BlockBytes(Heap, mnemonicMap[<<1, 1>>]) = 64
    /\ mnemonicMap[<<3, 3>>] = mnemonicMap[<<1, 1>>] + 32
    /\ ~IsBlock(Heap, mnemonicMap[<<3, 3>>])

----------------------------------------------------------------------------
(* Properties of the loop of pushs.                                        *)

\* the passes the loop of pushs makes from the reader of v: one for the
\* byte 0 (the end of the buffer reads as 0), and one more than from behind
\* the sequence for any other first byte
RECURSIVE Passes(_)
Passes(v) ==
    IF ReadBytes(v, 1).bytes[1] = 0 THEN 1
    ELSE IF ReadBytes(v, 1).bytes[1] < 128 THEN 1 + Passes(ReadBytes(v, 1).v)
    ELSE IF ReadBytes(v, 1).bytes[1] \div 16 = 12
    THEN 1 + Passes(ReadBytes(ReadBytes(v, 1).v, 1).v)
    ELSE IF ReadBytes(v, 1).bytes[1] \div 16 = 14
    THEN 1 + Passes(ReadBytes(ReadBytes(v, 1).v, 2).v)
    ELSE 1 + Passes(ReadBytes(ReadBytes(v, 1).v, 3).v)

\* the next opcode is pushs
AnyPushsStep ==
    /\ status = "ok"
    /\ CanStep(VM)
    /\ opcodes[cursor + 1] = 5

\* no 0x00 follows the pushs at the cursor
Unterminated == \A i \in (cursor + 2)..Len(opcodes) : opcodes[i] # 0

\* C40: pushs terminates for every opcode buffer, with or without a 0x00
\* behind it: its loop makes at most one pass for each byte left and one
\* for the end of the buffer, the cursor stays in the buffer, and the Step
\* pushes a string: bytes that end with 0x00 and their count.
C40_PushsTerminates ==
    [][AnyPushsStep =>
          /\ status' = "ok"
          /\ last'.op = "pushs"
          /\ Passes(AfterOpcode) <= (Len(opcodes) - (cursor + 1)) + 1
          /\ cursor' > cursor
          /\ cursor' <= Len(opcodes)
          /\ Unterminated => cursor' = Len(opcodes)
          /\ HoldsString(Stack')
          /\ PopString(Stack').s.byteStack = Stack.byteStack
          /\ PopString(Stack').val # << >>
          /\ PopString(Stack').val[Len(PopString(Stack').val)] = 0
          /\ Stack'.lenLastPushed = Len(PopString(Stack').val)]_vars

\* pushs "Hi" without a terminator has run: the end of the buffer was read
\* as the 0x00, in the third pass
C40_Witness ==
    /\ opcodes = <<5, 72, 105>>
    /\ last.op = "pushs"
    /\ status = "ok"
    /\ cursor = 3
    /\ Stack.byteStack = <<72, 105, 0>> \o FromInt64(3)
    /\ Passes([VM EXCEPT !.cursor = 1]) = 3

\* cons; pushs "H" 0xF0 has run: the three bytes behind the lead byte are
\* not there, ReadBytes gave the one byte 0, and the next pass stopped
C40_LeadByteAtTheEnd ==
    /\ opcodes = <<6, 5, 72, 240>>
    /\ last.op = "pushs"
    /\ status = "ok"
    /\ cursor = 4
    /\ PopString(Stack).val = <<72, 240, 0, 0>>

============================================================================
